---- MODULE Spec2Model ----
(***************************************************************************)
(* Plugin registry of LogzAIBase (src/src/browser.ts) and the Express      *)
(* instrumentation plugin (src/src/plugins/express.ts).                    *)
(*                                                                         *)
(* The registry is a JavaScript Map.  A Map is modelled as ECMAScript      *)
(* specifies it: an append-only list of slots; delete() and clear() empty  *)
(* slots in place, set() of a new key appends a slot, and an iterator is   *)
(* an index into the list, so it sees entries appended while it is         *)
(* suspended and skips entries deleted meanwhile.                          *)
(***************************************************************************)
EXTENDS Integers, Sequences, FiniteSets, TLC

\* ---------------------------------------------------------------- bounds
MaxSetups == 3
MaxShutdowns == 1
MaxHttpSetups == 2
MaxReqs == 2
MaxReqSetups == 1
MaxDuration == 2
MaxSkipSetups == 1
MaxPathLen == 4
MaxConcSetups == 1

None == "none"
Names == {"a", "b"}
ShutdownIds == 1..MaxShutdowns
ReqIds == 1..MaxReqs

\* ------------------------------------------------- plugins and their config
\* A plugin function returns nothing, or a cleanup that returns nothing or a
\* promise.  User plugins are represented by what their setup and cleanup do.
UserPlugins == {"pThrows", "pNoCleanup", "pSync", "pSyncThrows", "pAsync"}
PluginFns == UserPlugins \cup {"expressPlugin"}

\* ------------------------------------------------- the global environment
VARIABLES
  window,           \* the global object: [present, onerror, onunhandledrejection,
                    \* listeners]; present is FALSE where typeof window is 'undefined'
  obs,              \* what the last hook, facade call or browserPlugin setup did
  mirrorToConsole,  \* the mirrorToConsole option init was called with
  page,             \* the page's unload listeners and the browser facade's
                    \* beforeUnloadHandler / pageHideHandler fields
  spans             \* the span(name, fn) calls made so far

envFrame == <<window, obs, mirrorToConsole, page, spans>>

\* Functions are told apart by identity: NoHandler is null, HostHandlers are
\* functions of the application, and the handlers the browser plugin creates
\* in its n-th setup are both written n (one lives in window.onerror, the
\* other among the 'unhandledrejection' listeners).
NoHandler == 0
HostHandlers == {101, 102}

NoWindow == [present |-> FALSE, onerror |-> NoHandler,
             onunhandledrejection |-> NoHandler, listeners |-> <<>>]
BrowserWindow == [NoWindow EXCEPT !.present = TRUE]

\* The config of the browser plugin: errorFilter is absent, or a function that
\* returns true ("allow"), returns false ("deny") or throws; contextInjector is
\* absent or a function that throws; messageFormatter is absent, or a function
\* that returns a message ("ok") or throws.
BrowserCfg == [captureErrors |-> TRUE, captureUnhandledRejections |-> TRUE,
               errorFilter |-> None, contextInjector |-> None,
               messageFormatter |-> None]

WindowGuardOff(win) == FALSE

\* if (typeof window === 'undefined') { console.warn(...); return; }
WindowMissing(win) == ~win.present

\* What the cleanup stored for a plugin does when invoked:
\* none (no cleanup returned), sync, throws (synchronously), async (a promise).
CleanupKind(p) ==
  CASE p = "pNoCleanup" -> "none"
    [] p = "pSync" -> "sync"
    [] p = "pSyncThrows" -> "throws"
    [] p = "pAsync" -> "async"
    [] p = "expressPlugin" -> "sync"
    [] p = "browserPlugin" -> IF WindowMissing(window) THEN "none" ELSE "sync"
    [] OTHER -> "none"

\* Paths and skipPaths patterns are strings, written as character sequences.
PathH == <<"/", "h">>
PathU == <<"/", "u">>
Paths == {PathH, PathU}

\* slowRequestThreshold left out of the config (undefined).
NoThreshold == -1

\* The express plugin's config with its defaults (given: a config object was
\* passed; app: it holds the host app).
NoCfg == [app |-> FALSE, given |-> FALSE, logRequests |-> TRUE, logResponses |-> TRUE,
          captureErrors |-> TRUE, contextInjector |-> None, requestFilter |-> None,
          slowRequestThreshold |-> NoThreshold, skipPaths |-> {}]
DefaultCfg == [NoCfg EXCEPT !.app = TRUE, !.given = TRUE]
RegistryCfgs == {NoCfg, [NoCfg EXCEPT !.given = TRUE], DefaultCfg}

\* What a setup invocation leaves behind: the express plugin's closure (its
\* config and the entry points it captured), nothing for other plugins.
NoClosure == [cfg |-> NoCfg, originalJson |-> None, originalSend |-> None]

\* The browser plugin's closure: its config and the handlers it found in
\* place; before is the global object as setup found it.
BrowserClosure(cfg, win) ==
  [cfg |-> NoCfg, originalJson |-> None, originalSend |-> None, browser |-> cfg,
   previousErrorHandler |-> IF cfg.captureErrors THEN win.onerror ELSE NoHandler,
   previousRejectionHandler |-> IF cfg.captureUnhandledRejections
                                THEN win.onunhandledrejection ELSE NoHandler,
   before |-> win]

Closure(p, cfg, resp) ==
  IF p = "expressPlugin" /\ cfg.given /\ cfg.app
  THEN [cfg |-> cfg, originalJson |-> resp.json, originalSend |-> resp.send]
  ELSE IF p = "browserPlugin" /\ ~WindowMissing(window)
  THEN BrowserClosure(cfg, window)
  ELSE NoClosure

VARIABLES
  initialized,     \* this.logger is set (init has run)
  pluginRegistry,  \* the Map's slot list: [name, plugin, cleanup, live]
  setups,          \* one record per setup invocation: the plugin closure
  cleanupCalls,    \* cleanup id -> number of invocations of that cleanup
  promises,        \* pending promises returned by async cleanups
  unhandled,       \* a promise rejected with no handler attached
  sd,              \* shutdown() invocations: [pc, idx, wait, invoked, caught]
  active,          \* names registered by a successful plugin() and not removed since
  last,            \* the operation the last step performed and how it ended
  appStack,        \* the host app's ordered middleware stack
  appResponse,     \* app.response: the json and send entry points
  reqs             \* the requests the host app handles

vars == <<initialized, pluginRegistry, setups, cleanupCalls, promises, unhandled, sd,
          active, last,
          appStack, appResponse, reqs, window, obs, mirrorToConsole, page, spans>>

\* What the last step did.  For plugin() and unregisterPlugin(): the name, whether
\* the registry had it, whether the call threw to its caller, what the setup
\* function did (none: not invoked) and whether the config lacked the app.
Op(op) == [op |-> op, name |-> None, had |-> FALSE, threw |-> FALSE,
           setup |-> None, noApp |-> FALSE]

\* ------------------------------------------------------------- the Map
EmptySlot == [name |-> None, plugin |-> None, cleanup |-> 0, live |-> FALSE]

MapHas(reg, name) == \E i \in 1..Len(reg) : reg[i].live /\ reg[i].name = name

MapIndex(reg, name) == CHOOSE i \in 1..Len(reg) : reg[i].live /\ reg[i].name = name

MapSize(reg) == Cardinality({i \in 1..Len(reg) : reg[i].live})

MapSetFront(reg, name, p, id) ==
  <<[name |-> name, plugin |-> p, cleanup |-> id, live |-> TRUE]>> \o reg

MapSet(reg, name, p, id) ==
  LET e == [name |-> name, plugin |-> p, cleanup |-> id, live |-> TRUE]
  IN IF MapHas(reg, name) THEN [reg EXCEPT ![MapIndex(reg, name)] = e]
     ELSE Append(reg, e)

MapDeleteNothing(reg, name) == reg

MapDelete(reg, name) ==
  IF MapHas(reg, name) THEN [reg EXCEPT ![MapIndex(reg, name)] = EmptySlot] ELSE reg

MapClearNothing(reg) == reg

MapClear(reg) == [i \in 1..Len(reg) |-> EmptySlot]

MapNextDone(reg, idx) == 0

\* The iterator's next(): the first live slot after position idx, 0 when done.
MapNext(reg, idx) ==
  IF \E j \in (idx + 1)..Len(reg) : reg[j].live
  THEN CHOOSE j \in (idx + 1)..Len(reg) :
         reg[j].live /\ \A k \in (idx + 1)..(j - 1) : ~reg[k].live
  ELSE 0

\* ------------------------------------------------------------- the facade
\* emit(): throws "logzai not initialized" when the logger is absent.
EmitThrows(init) == ~init

\* ------------------------------------------------------- express setup
ExpressConfigMissing(cfg) == ~cfg.given \/ ~cfg.app

\* app.use(loggingMiddleware); if (captureErrors) app.use(errorMiddleware)
ExpressUse(stack, cfg, id) ==
  LET s1 == Append(stack, [kind |-> "logging", inst |-> id])
  IN IF cfg.captureErrors THEN Append(s1, [kind |-> "error", inst |-> id]) ELSE s1

\* Whether the plugin's setup function throws.
SetupThrows(p, cfg, init) ==
  \/ p = "pThrows"
  \/ p = "expressPlugin" /\ (ExpressConfigMissing(cfg) \/ EmitThrows(init))

\* The host app's stack after the setup function ran (or threw).
SetupStack(stack, p, cfg, id) ==
  IF p = "expressPlugin" /\ ~ExpressConfigMissing(cfg)
  THEN ExpressUse(stack, cfg, id) ELSE stack

\* ------------------------------------------------------- listeners
\* addEventListener ignores a callback that is already registered for the type.
AddEventListener(ls, h) ==
  IF \E i \in 1..Len(ls) : ls[i] = h THEN ls ELSE Append(ls, h)

RemoveEventListener(ls, h) == SelectSeq(ls, LAMBDA x : x # h)

\* ------------------------------------------------------- unload listeners
\* The n-th init call creates one beforeunload and one pagehide handler; both
\* are written n.  pending and type describe a dispatch in progress: the
\* listeners of the event that are still to be called.
NoPage == [beforeunload |-> <<>>, pagehide |-> <<>>,
           beforeUnloadHandler |-> NoHandler, pageHideHandler |-> NoHandler,
           created |-> 0, shutdowns |-> 0, pending |-> <<>>, type |-> None]

UnloadEvents == {"beforeunload", "pagehide"}

SetupAutoShutdown(pg, win) ==
  IF ~win.present THEN pg
  ELSE LET n == pg.created + 1
       IN [pg EXCEPT !.created = n,
                     !.beforeUnloadHandler = n, !.pageHideHandler = n,
                     !.beforeunload = AddEventListener(@, n),
                     !.pagehide = AddEventListener(@, n)]

RemoveUnloadListeners(pg, win) ==
  LET p1 == IF win.present /\ pg.beforeUnloadHandler # NoHandler
            THEN [pg EXCEPT !.beforeunload =
                              RemoveEventListener(@, pg.beforeUnloadHandler),
                            !.beforeUnloadHandler = NoHandler]
            ELSE pg
      p2 == IF win.present /\ p1.pageHideHandler # NoHandler
            THEN [p1 EXCEPT !.pagehide = RemoveEventListener(@, p1.pageHideHandler),
                            !.pageHideHandler = NoHandler]
            ELSE p1
  IN [p2 EXCEPT !.shutdowns = @ + 1]

\* ------------------------------------------------------- browser setup
CaptureGateOpen(flag) == TRUE

\* if (captureErrors) { ... }  /  if (captureUnhandledRejections) { ... }, and
\* in the cleanup: if (errorHandler && captureErrors) / if (rejectionHandler &&
\* captureUnhandledRejections).
CaptureGate(flag) == flag

\* previousErrorHandler = window.onerror; window.onerror = errorHandler;
\* window.addEventListener('unhandledrejection', rejectionHandler), and the
\* same for the previous window.onunhandledrejection when it is a function.
SetupWindow(win, p, cfg, id) ==
  IF p # "browserPlugin" \/ WindowMissing(win) THEN win
  ELSE LET w1 == IF CaptureGate(cfg.captureErrors) THEN [win EXCEPT !.onerror = id]
                 ELSE win
           l1 == AddEventListener(win.listeners, id)
           l2 == IF win.onunhandledrejection # NoHandler
                 THEN AddEventListener(l1, win.onunhandledrejection) ELSE l1
       IN IF CaptureGate(cfg.captureUnhandledRejections)
          THEN [w1 EXCEPT !.listeners = l2] ELSE w1

\* What the setup of the browser plugin does besides: the console warning
\* where there is no window, and no call of the facade either way.
NoObs == [kind |-> None, trace |-> <<>>, threw |-> FALSE, ret |-> None, args |-> <<>>]

BrowserSetupTrace(win) ==
  IF WindowMissing(win) THEN <<[e |-> "console.warn", h |-> NoHandler]>> ELSE <<>>

\* ------------------------------------------------------------ plugin()
PluginGuardOff(reg, name) == FALSE

\* if (this.pluginRegistry.has(name)) { warn; return }
PluginGuard(reg, name) == MapHas(reg, name)

PluginStoreAlways(reg, name, p, id, threw) == MapSet(reg, name, p, id)

\* catch (error) { console.error(...); throw error }
PluginRethrows(threw) == threw

\* try { cleanup = plugin(this, params); registry.set(...) } catch { throw }
PluginStore(reg, name, p, id, threw) ==
  IF threw THEN reg ELSE MapSet(reg, name, p, id)

Plugin(name, p, cfg) ==
  IF PluginGuard(pluginRegistry, name)
  THEN /\ last' = [Op("plugin") EXCEPT !.name = name, !.had = TRUE]
       /\ UNCHANGED <<initialized, pluginRegistry, setups, cleanupCalls, promises,
                      unhandled, sd, active, appStack, appResponse, reqs, envFrame>>
  ELSE /\ Len(setups) < MaxSetups
       /\ LET id == Len(setups) + 1
              threw == SetupThrows(p, cfg, initialized)
          IN /\ setups' = Append(setups, Closure(p, cfg, appResponse))
             /\ appStack' = SetupStack(appStack, p, cfg, id)
             /\ window' = SetupWindow(window, p, cfg, id)
             /\ obs' = IF p = "browserPlugin"
                       THEN [NoObs EXCEPT !.kind = "setup",
                                          !.trace = BrowserSetupTrace(window),
                                          !.threw = threw]
                       ELSE obs
             /\ pluginRegistry' = PluginStore(pluginRegistry, name, p, id, threw)
             /\ active' = IF threw THEN active ELSE active \cup {name}
             /\ last' = [Op("plugin") EXCEPT
                            !.name = name, !.had = MapHas(pluginRegistry, name),
                            !.threw = PluginRethrows(threw),
                            !.setup = IF threw THEN "threw" ELSE "ok",
                            !.noApp = (p = "expressPlugin" /\ ExpressConfigMissing(cfg))]
       /\ UNCHANGED <<initialized, cleanupCalls, promises, unhandled, sd, appResponse, reqs,
                      mirrorToConsole, page, spans>>

\* ------------------------------------------------------ cleanup calls
\* Whether invoking cleanup id throws synchronously.
CleanupThrows(p, init) ==
  \/ CleanupKind(p) = "throws"
  \/ p = "expressPlugin" /\ EmitThrows(init)

\* app.response after cleanup id ran: the express cleanup restores the
\* entry points it captured at setup.
CapturedReRead(captured, live) == live

\* originalJson / originalSend as the plugin's code reads them after setup: the
\* constant bound at setup, whatever app.response holds by then.
Captured(captured, live) == captured

CleanupResponse(resp, c) ==
  IF c.plugin = "expressPlugin"
  THEN [json |-> Captured(setups[c.id].originalJson, resp.json),
        send |-> Captured(setups[c.id].originalSend, resp.send)]
  ELSE resp

\* The global object after cleanup id ran.  The browser cleanup acts on its
\* first invocation only (it sets errorHandler and rejectionHandler to null):
\* it puts previousErrorHandler back in window.onerror and removes the
\* listeners setup asked for.
ErrorHookCleared(previous) == NoHandler

\* window.onerror = previousErrorHandler
ErrorHookRestored(previous) == previous

CleanupWindow(win, c) ==
  IF c.plugin # "browserPlugin" \/ cleanupCalls[c.id] > 0 THEN win
  ELSE LET cl == setups[c.id]
           w1 == IF CaptureGate(cl.browser.captureErrors)
                 THEN [win EXCEPT !.onerror = ErrorHookRestored(cl.previousErrorHandler)]
                 ELSE win
           l1 == RemoveEventListener(win.listeners, c.id)
           l2 == IF cl.previousRejectionHandler # NoHandler
                 THEN RemoveEventListener(l1, cl.previousRejectionHandler) ELSE l1
       IN IF CaptureGate(cl.browser.captureUnhandledRejections)
          THEN [w1 EXCEPT !.listeners = l2] ELSE w1

RECURSIVE CleanupsWindow(_, _)
CleanupsWindow(win, calls) ==
  IF calls = <<>> THEN win
  ELSE CleanupsWindow(CleanupWindow(win, Head(calls)), Tail(calls))

\* calls: the cleanups one step invoked, in order, each [id, plugin].
RECURSIVE CleanupsResponse(_, _)
CleanupsResponse(resp, calls) ==
  IF calls = <<>> THEN resp
  ELSE CleanupsResponse(CleanupResponse(resp, Head(calls)), Tail(calls))

CallIds(calls) == [i \in 1..Len(calls) |-> calls[i].id]

RECURSIVE CountCalls(_, _)
CountCalls(counts, calls) ==
  IF calls = <<>> THEN counts
  ELSE CountCalls([counts EXCEPT ![Head(calls).id] = @ + 1], Tail(calls))

\* The promises a step creates: one per invoked async cleanup.  A promise is
\* [id, owner, handled]: the cleanup that returned it, the call that invoked
\* the cleanup (a shutdown id, 0 for unregisterPlugin), and whether a rejection
\* handler is attached to it.
NewPromises(calls, owner, handled) ==
  {[id |-> calls[i].id, owner |-> owner, handled |-> handled] :
     i \in {k \in 1..Len(calls) : CleanupKind(calls[k].plugin) = "async"}}

\* --------------------------------------------------- unregisterPlugin()
UnregisterNoCatch(threw) == threw

\* try { result = entry.cleanup(); ... } catch (error) { console.error }
UnregisterPropagates(threw) == FALSE

\* if (result instanceof Promise) result.catch(...)
UnregisterAttachesCatch(isPromise) == isPromise

UnregisterPlugin(name) ==
  IF ~MapHas(pluginRegistry, name)
  THEN /\ last' = [Op("unregister") EXCEPT !.name = name]
       /\ UNCHANGED <<initialized, pluginRegistry, setups, cleanupCalls, promises,
                      unhandled, sd, active, appStack, appResponse, reqs, envFrame>>
  ELSE LET e == pluginRegistry[MapIndex(pluginRegistry, name)]
           has == CleanupKind(e.plugin) # "none"
           threw == has /\ CleanupThrows(e.plugin, initialized)
           out == UnregisterPropagates(threw)
           calls == IF has THEN <<[id |-> e.cleanup, plugin |-> e.plugin]>> ELSE <<>>
       IN /\ cleanupCalls' = CountCalls(cleanupCalls, calls)
          /\ promises' = promises \cup NewPromises(calls, 0,
                                                   UnregisterAttachesCatch(TRUE))
          /\ appResponse' = CleanupsResponse(appResponse, calls)
          /\ window' = CleanupsWindow(window, calls)
          /\ pluginRegistry' = IF out THEN pluginRegistry
                               ELSE MapDelete(pluginRegistry, name)
          /\ active' = IF out THEN active ELSE active \ {name}
          /\ last' = [Op("unregister") EXCEPT !.name = name, !.had = TRUE, !.threw = out]
          /\ UNCHANGED <<initialized, setups, unhandled, sd, appStack, reqs, obs,
                         mirrorToConsole, page, spans>>

\* ------------------------------------------------------------ shutdown()
DrainNeverAwaits(kind) == FALSE

\* await entry.cleanup(): the loop suspends on whatever the cleanup returned.
DrainAwaits(kind) == kind \in {"sync", "async"}

DrainAbortsOnFailure == "abort"

\* catch (error) { console.error(...) }: the loop goes on after a failure.
DrainOnFailure == "continue"

\* The for-of loop over pluginRegistry.entries(), run from iterator position
\* idx until it suspends on an await, finishes, or fails.
RECURSIVE Drain(_, _, _)
Drain(reg, idx, init) ==
  LET j == MapNext(reg, idx)
  IN IF j = 0
     THEN [idx |-> Len(reg), calls |-> <<>>, caught |-> <<>>, end |-> "finished"]
     ELSE LET c == [id |-> reg[j].cleanup, plugin |-> reg[j].plugin]
              kind == CleanupKind(reg[j].plugin)
          IN IF kind = "none" THEN Drain(reg, j, init)
             ELSE IF CleanupThrows(reg[j].plugin, init)
             THEN IF DrainOnFailure = "continue"
                  THEN LET r == Drain(reg, j, init)
                       IN [r EXCEPT !.calls = <<c>> \o @, !.caught = <<c.id>> \o @]
                  ELSE [idx |-> j, calls |-> <<c>>, caught |-> <<>>, end |-> "failed"]
             ELSE IF DrainAwaits(kind)
             THEN [idx |-> j, calls |-> <<c>>, caught |-> <<>>, end |-> "await"]
             ELSE LET r == Drain(reg, j, init)
                  IN [r EXCEPT !.calls = <<c>> \o @]

\* One synchronous run of shutdown() s from iterator position idx: the drain
\* loop, then pluginRegistry.clear() and the start of the providers' shutdown
\* (which throws when init never created the providers).  settled: the
\* promise this run was awaiting; rejected: the ids whose rejection it caught.
ShutdownRun(s, idx, settled, rejected) ==
  LET r == Drain(pluginRegistry, idx, initialized)
      w == IF r.end = "await" /\ CleanupKind(r.calls[Len(r.calls)].plugin) = "async"
           THEN r.calls[Len(r.calls)].id ELSE 0
  IN /\ cleanupCalls' = CountCalls(cleanupCalls, r.calls)
     /\ promises' = (promises \ settled) \cup NewPromises(r.calls, s, r.end = "await")
     /\ appResponse' = CleanupsResponse(appResponse, r.calls)
     /\ window' = CleanupsWindow(window, r.calls)
     /\ pluginRegistry' = IF r.end = "finished" THEN MapClear(pluginRegistry)
                          ELSE pluginRegistry
     /\ active' = IF r.end = "finished" THEN {} ELSE active
     /\ sd' = [sd EXCEPT ![s] =
                 [pc |-> CASE r.end = "await" -> "await"
                           [] r.end = "failed" -> "drainFailed"
                           [] OTHER -> IF initialized THEN "backend" ELSE "backendFailed",
                  idx |-> r.idx, wait |-> w,
                  invoked |-> @.invoked \o CallIds(r.calls),
                  caught |-> @.caught \o rejected \o r.caught]]
     /\ UNCHANGED <<initialized, setups, unhandled, appStack, reqs, obs, mirrorToConsole, spans>>

\* shutdown() of the browser facade, called with the page in state pg: the
\* unload listeners held in the two fields are removed and the fields
\* cleared, then the base shutdown runs up to its first await.  Where window
\* is undefined only the base shutdown runs.
ShutdownFrom(s, pg) ==
  /\ sd[s].pc = "idle"
  /\ \A t \in ShutdownIds : t < s => sd[t].pc # "idle"
  /\ page' = RemoveUnloadListeners(pg, window)
  /\ ShutdownRun(s, 0, {}, <<>>)
  /\ last' = Op("shutdown")

ShutdownCall(s) == ShutdownFrom(s, page)

\* The awaited value is there (a microtask later for a plain value, when the
\* promise settles otherwise) and shutdown() s goes on; a rejection is caught
\* like a throw.
ShutdownResume(s, outcome) ==
  /\ sd[s].pc = "await"
  /\ sd[s].wait = 0 => outcome = "resolved"
  /\ LET settled == {pr \in promises : pr.owner = s /\ pr.id = sd[s].wait}
     IN IF outcome = "rejected" /\ DrainOnFailure # "continue"
        THEN /\ sd' = [sd EXCEPT ![s].pc = "drainFailed", ![s].wait = 0]
             /\ promises' = promises \ settled
             /\ UNCHANGED <<initialized, pluginRegistry, setups, cleanupCalls,
                            unhandled, active, appStack, appResponse, reqs, envFrame>>
        ELSE /\ ShutdownRun(s, sd[s].idx, settled,
                            IF outcome = "rejected" THEN <<sd[s].wait>> ELSE <<>>)
             /\ UNCHANGED page
  /\ last' = Op("resume")

\* Promise.all([loggerProvider.shutdown(), tracerProvider.shutdown()]) settled.
BackendDone(s) ==
  /\ sd[s].pc = "backend"
  /\ sd' = [sd EXCEPT ![s].pc = "done"]
  /\ last' = Op("backend")
  /\ UNCHANGED <<initialized, pluginRegistry, setups, cleanupCalls, promises,
                 unhandled, active, appStack, appResponse, reqs, envFrame>>

\* A promise nobody awaits resolves or rejects; a rejection with no handler
\* attached is an unhandled rejection.
Settle(pr, outcome) ==
  /\ pr \in promises
  /\ ~(pr.owner \in ShutdownIds /\ sd[pr.owner].pc = "await" /\ sd[pr.owner].wait = pr.id)
  /\ promises' = promises \ {pr}
  /\ unhandled' = (unhandled \/ (outcome = "rejected" /\ ~pr.handled))
  /\ last' = Op("settle")
  /\ UNCHANGED <<initialized, pluginRegistry, setups, cleanupCalls, sd, active,
                 appStack, appResponse, reqs, envFrame>>

\* init(config): creates the providers and the logger and keeps
\* config.mirrorToConsole (false when absent).
\* In a page it then creates a new beforeunload and a new pagehide handler,
\* stores them in its two fields and adds them as listeners.
InitBody(mirror) ==
  /\ initialized' = TRUE
  /\ mirrorToConsole' = mirror
  /\ page' = SetupAutoShutdown(page, window)
  /\ last' = Op("init")
  /\ UNCHANGED <<pluginRegistry, setups, cleanupCalls, promises, unhandled, sd,
                 active, appStack, appResponse, reqs, window, obs, spans>>

\* The application calls init once.
FacadeInit(mirror) ==
  /\ ~initialized
  /\ InitBody(mirror)

LogzInit == FacadeInit(FALSE)

\* ------------------------------------------------- express: requests
\* The root context: no span is active.
RootCtx == [r |-> 0, n |-> 0]

\* A request and its response.  spans: the spans opened for it, each
\* [inst, ends, status, exceptions]; chain: the wrappers installed on res.end,
\* innermost first, each the index of the span its closure holds; finalized:
\* calls of the response's own end; logs: what was emitted for it; json, send:
\* the plugin instance whose wrapper is installed on res.json / res.send (0:
\* the prototype's); calls: the calls of the captured serializers, each with
\* the status and headers the response had then; ret: what the serializer
\* call returned to the handler; ctx: the
\* context active in the code now running for the request; by: the context in
\* which a pending response was written; trace: the events
\* of its handling in order, each [e, inst, arg].
IdleReq == [st |-> "idle", id |-> 0, path |-> <<>>, beh |-> None, status |-> 0,
            dur |-> 0, body |-> None, hlog |-> FALSE,
            err |-> FALSE, error |-> None,
            spans |-> <<>>, chain |-> <<>>, logzaiSpan |-> 0, finalized |-> 0,
            logs |-> <<>>, json |-> 0, send |-> 0, calls |-> <<>>, ret |-> 0,
            headers |-> {}, ctx |-> RootCtx, by |-> RootCtx, trace |-> <<>>]

Ev(q, e, inst, arg) ==
  [q EXCEPT !.trace = Append(@, [e |-> e, inst |-> inst, arg |-> arg])]

\* A facade logging call: the record is tagged with the active context.
EmitLog(q, type, sev, inst, ctx) ==
  Ev([q EXCEPT !.logs = Append(@, [type |-> type, sev |-> sev, inst |-> inst,
                                    ctx |-> ctx])],
     "log", inst, <<type>>)

\* new RegExp('^' + skipPath.replace(/\*/g, '.*') + '$').test(path): a '*'
\* stands for any characters; the rest of the pattern is regular-expression
\* text, in which '.' stands for any one character.
RECURSIVE RegexTest(_, _)
RegexTest(pat, str) ==
  IF pat = <<>> THEN str = <<>>
  ELSE IF Head(pat) = "*"
  THEN \E k \in 0..Len(str) : RegexTest(Tail(pat), SubSeq(str, k + 1, Len(str)))
  ELSE /\ str # <<>>
       /\ Head(pat) = "." \/ Head(pat) = Head(str)
       /\ RegexTest(Tail(pat), Tail(str))

ShouldSkipPath(skipPaths, path) ==
  \E skipPath \in skipPaths :
    IF "*" \in {skipPath[i] : i \in 1..Len(skipPath)}
    THEN RegexTest(skipPath, path)
    ELSE path = skipPath

SkipNever(cfg, path) == FALSE

\* if (shouldSkipPath(req.path)) return next();
\* if (requestFilter && !requestFilter(req)) return next();
SkipRequest(cfg, path) ==
  ShouldSkipPath(cfg.skipPaths, path) \/ cfg.requestFilter = "deny"

\* if (contextInjector) Object.assign(attrs, contextInjector(req)): the call
\* throws when the injector does.
InjectorThrows(cfg) == cfg.contextInjector = "throws"

\* getBaseAttributes() followed by a facade logging call.
LogThrows(cfg, init) == InjectorThrows(cfg) \/ EmitThrows(init)

\* The error such a call throws: the attributes are built first.
ThrownBy(cfg, init) == IF InjectorThrows(cfg) THEN "injectorError" ELSE "notInitialized"

SeverityAlwaysInfo(statusCode) == "info"

\* statusCode >= 500 -> error, >= 400 -> warn, else info
ResponseSeverity(statusCode) ==
  IF statusCode >= 500 THEN "error" ELSE IF statusCode >= 400 THEN "warn" ELSE "info"

\* if (logResponses) { ...; if (slowRequestThreshold && duration >
\* slowRequestThreshold) instance.warn('Slow request detected ...') }
SlowRequestLogged(cfg, duration) ==
  /\ cfg.logResponses
  /\ cfg.slowRequestThreshold # NoThreshold /\ cfg.slowRequestThreshold # 0
  /\ duration > cfg.slowRequestThreshold

\* loggingMiddleware up to its call of next(); err: it threw.
LoggingMiddleware(q, inst, init) ==
  LET cfg == setups[inst].cfg
      n == Len(q.spans) + 1
      own == [r |-> q.id, n |-> n]
      q0 == Ev(q, "loggingMiddleware", inst, <<>>)
      q1 == Ev([q0 EXCEPT !.spans = Append(@, [inst |-> inst, ends |-> 0,
                                               status |-> "unset", exceptions |-> 0]),
                          !.logzaiSpan = n],
               "startSpan", inst, <<>>)
      q2 == IF cfg.logRequests THEN EmitLog(q1, "http.request", "info", inst, own)
            ELSE q1
      q3 == [q2 EXCEPT !.chain = Append(@, n), !.json = inst, !.send = inst,
                       !.ctx = own]
  IN IF SkipRequest(cfg, q.path) THEN Ev(q0, "next", inst, <<>>)
     ELSE IF cfg.logRequests /\ LogThrows(cfg, init)
     THEN [q1 EXCEPT !.err = TRUE, !.error = ThrownBy(cfg, init)]
     ELSE Ev(q3, "next", inst, <<>>)

EndSpanNever(n) == n

\* span.end()
EndSpan(n) == n + 1

EndArgsDropped(args) == <<>>

\* originalEnd.apply(res, args)
EndArgs(args) == args

EndContextOfCaller(own, caller) == caller

\* return context.with(ctx, () => { ... })
EndContext(own, caller) == own

\* A call of the res.end installed at level k of the chain (0: the response's
\* own end) with args, made while context caller is active.  The wrapper sets
\* the span's status, logs the response, ends the span and calls the end it
\* captured.  Returns the request and whether the call threw.
RECURSIVE ResEnd(_, _, _, _, _)
ResEnd(q, k, init, args, caller) ==
  IF k = 0
  THEN [q |-> Ev([q EXCEPT !.finalized = @ + 1], "end", 0, args), threw |-> FALSE]
  ELSE LET n == q.chain[k]
           inst == q.spans[n].inst
           cfg == setups[inst].cfg
           own == [r |-> q.id, n |-> n]
           ctx == EndContext(own, caller)
           q0 == Ev(q, "res.end", inst, args)
           q1 == Ev([q0 EXCEPT !.spans[n].status =
                                  IF q.status >= 400 THEN "error" ELSE "ok"],
                    "setStatus", inst, <<>>)
           q2 == IF cfg.logResponses
                 THEN EmitLog(q1, "http.response", ResponseSeverity(q.status), inst, ctx)
                 ELSE q1
           q3 == IF SlowRequestLogged(cfg, q.dur)
                 THEN EmitLog(q2, "http.slow_request", "warn", inst, ctx)
                 ELSE q2
           q4 == Ev([q3 EXCEPT !.spans[n].ends = EndSpan(@)], "span.end", inst, <<>>)
           q5 == Ev(q4, "originalEnd", inst, EndArgs(args))
       IN IF cfg.logResponses /\ LogThrows(cfg, init)
          THEN [q |-> [q1 EXCEPT !.error = ThrownBy(cfg, init)], threw |-> TRUE]
          ELSE ResEnd(q5, k - 1, init, EndArgs(args), ctx)

\* JSON.stringify of the body a handler passes to res.json.
JsonStringify(body) == IF body = "obj" THEN "{}" ELSE "null"

WrapperBodyCaptured(body) == "captured"

\* responseBody = body; return originalJson.call(this, body)  (and send)
WrapperBody(body) == body

\* res.send(body): the wrapper when one is installed, then the host's send,
\* which writes the body through this.end.
ResSend(q, init, body) ==
  LET i == q.send
      q1 == IF i = 0 THEN q
            ELSE Ev([q EXCEPT !.calls = Append(@, [fn |-> Captured(setups[i].originalSend,
                                                         appResponse.send),
                          recv |-> q.id, body |-> WrapperBody(body),
                          status |-> q.status, headers |-> q.headers])],
                    "res.send", i, <<body>>)
      chunk == IF i = 0 THEN body ELSE WrapperBody(body)
      q2 == [q1 EXCEPT !.headers = IF "Content-Type" \in {h[1] : h \in @} THEN @
                                   ELSE @ \cup {<<"Content-Type", "text/html">>}]
      e == ResEnd(q2, Len(q2.chain), init, <<chunk>>, q2.ctx)
  IN IF e.threw THEN e ELSE [q |-> [e.q EXCEPT !.ret = q.id], threw |-> FALSE]

\* res.json(body): the wrapper when one is installed, then the host's json,
\* which serializes the body and hands it to this.send.
ResJson(q, init, body) ==
  LET i == q.json
      q1 == IF i = 0 THEN q
            ELSE Ev([q EXCEPT !.calls = Append(@, [fn |-> Captured(setups[i].originalJson,
                                                         appResponse.json),
                          recv |-> q.id, body |-> WrapperBody(body),
                          status |-> q.status, headers |-> q.headers])],
                    "res.json", i, <<body>>)
      val == IF i = 0 THEN body ELSE WrapperBody(body)
      q2 == [q1 EXCEPT !.headers = IF "Content-Type" \in {h[1] : h \in @} THEN @
                                   ELSE @ \cup {<<"Content-Type", "application/json">>}]
  IN ResSend(q2, init, JsonStringify(val))

\* errorMiddleware up to its call of next(err); a throw inside it replaces
\* the error and the request stays on the error path either way.
ErrorMiddleware(q, inst, init) ==
  LET cfg == setups[inst].cfg
      n == q.logzaiSpan
      q0 == Ev(q, "errorMiddleware", inst, <<q.error>>)
      q1 == IF n # 0
            THEN Ev([q0 EXCEPT !.spans[n].exceptions = @ + 1,
                               !.spans[n].status = "error"],
                    "recordException", inst, <<q.error>>)
            ELSE q0
  IN IF ShouldSkipPath(cfg.skipPaths, q.path) THEN Ev(q0, "next", inst, <<q.error>>)
     ELSE IF InjectorThrows(cfg) THEN [q0 EXCEPT !.error = "injectorError"]
     ELSE IF EmitThrows(init) THEN [q1 EXCEPT !.error = "notInitialized"]
     ELSE Ev(EmitLog(q1, "http.error", "error", inst, q.ctx), "next", inst, <<q.error>>)

\* The host's final handler: 404 when no route answered, the error's status
\* otherwise; it writes nothing once the response is finalized.
FinalHandler(q, init) ==
  LET q0 == Ev(q, "final", 0, IF q.err THEN <<q.error>> ELSE <<>>)
  IN IF q.finalized > 0 THEN [q0 EXCEPT !.st = "done"]
     ELSE LET q1 == [q0 EXCEPT !.status = IF ~q.err THEN 404
                                          ELSE IF q.status >= 400 THEN q.status ELSE 500]
          IN [ResEnd(q1, Len(q1.chain), init, <<"final">>, q1.ctx).q EXCEPT !.st = "done"]

\* What a route handler does to answer: res.json(body), res.send(body),
\* res.end(body), or res.end(body) twice.
Answer(q, init) ==
  CASE q.beh = "json" -> ResJson(q, init, q.body)
    [] q.beh = "send" -> ResSend(q, init, q.body)
    [] q.beh = "twice" ->
         LET e1 == ResEnd(q, Len(q.chain), init, <<q.body>>, q.ctx)
         IN IF e1.threw THEN e1 ELSE ResEnd(e1.q, Len(q.chain), init, <<q.body>>, q.ctx)
    [] OTHER -> ResEnd(q, Len(q.chain), init, <<q.body>>, q.ctx)

\* A logging call the route handler makes through the facade.
HandlerLog(q, init) ==
  IF q.hlog THEN EmitLog(q, "handler", "info", 0, q.ctx) ELSE q

\* The host dispatches request q through the stack from layer pos on, until
\* the response is written or a route handler is left pending.  An ordinary
\* layer is skipped on the error path and an error layer off it; a throw in a
\* layer puts the request on the error path.
RECURSIVE Dispatch(_, _, _, _)
Dispatch(q, stack, pos, init) ==
  IF pos > Len(stack) THEN FinalHandler(q, init)
  ELSE LET layer == stack[pos]
       IN CASE layer.kind = "logging" ->
                 IF q.err THEN Dispatch(q, stack, pos + 1, init)
                 ELSE Dispatch(LoggingMiddleware(q, layer.inst, init), stack, pos + 1, init)
            [] layer.kind = "error" ->
                 IF q.err
                 THEN Dispatch(ErrorMiddleware(q, layer.inst, init), stack, pos + 1, init)
                 ELSE Dispatch(q, stack, pos + 1, init)
            [] OTHER ->
                 IF q.err THEN Dispatch(q, stack, pos + 1, init)
                 ELSE IF q.hlog /\ EmitThrows(init)
                 THEN Dispatch([Ev(q, "route", 0, <<>>) EXCEPT
                                   !.err = TRUE, !.error = "notInitialized"],
                               stack, pos + 1, init)
                 ELSE LET qh == HandlerLog(Ev(q, "route", 0, <<>>), init)
                      IN CASE q.beh = "throw" ->
                                Dispatch([qh EXCEPT !.err = TRUE, !.error = "e"],
                                         stack, pos + 1, init)
                           [] q.beh = "async" -> [qh EXCEPT !.st = "pending"]
                           [] OTHER ->
                                LET e == Answer(qh, init)
                                IN IF e.threw
                                   THEN Dispatch([e.q EXCEPT !.err = TRUE],
                                                 stack, pos + 1, init)
                                   ELSE [e.q EXCEPT !.st = "done"]

httpFrame == <<initialized, pluginRegistry, setups, cleanupCalls, promises, unhandled,
               sd, active, appResponse, envFrame>>

hookFrame == <<initialized, setups, cleanupCalls, promises, unhandled, sd, active,
               appStack, appResponse>>

HookRegistryCleared(reg) == MapClear(reg)

\* The registry as a hook leaves it: the middlewares and wrappers of the express
\* plugin and the handlers of the browser plugin hold the facade only to call
\* its logging methods, which do not touch this.pluginRegistry.
HookRegistry(reg) == reg

\* The application adds a route to the host app.
AddRoute ==
  /\ \A i \in 1..Len(appStack) : appStack[i].kind # "route"
  /\ appStack' = Append(appStack, [kind |-> "route", inst |-> 0])
  /\ last' = Op("route")
  /\ UNCHANGED <<httpFrame, reqs>>

\* Other code of the application replaces an entry point of app.response with
\* a function of its own, or puts the framework's back.
HostPatch(fn, v) ==
  /\ appResponse[fn] # v
  /\ appResponse' = [appResponse EXCEPT ![fn] = v]
  /\ last' = Op("patch")
  /\ UNCHANGED <<initialized, pluginRegistry, setups, cleanupCalls, promises, unhandled,
                 sd, active, appStack, reqs, envFrame>>

\* A request arrives; its route handler (if reached) answers with the status
\* at once (through res.end, res.json or res.send), answers and calls res.end a
\* second time, throws, or stays pending.  dur: the time that will have passed
\* when the response ends; hlog: the handler logs through the facade.
Request(r, path, beh, status, dur, hlog) ==
  /\ reqs[r].st = "idle"
  /\ reqs' = [reqs EXCEPT ![r] =
       Dispatch([IdleReq EXCEPT !.id = r, !.path = path, !.beh = beh,
                                !.status = status, !.dur = dur, !.hlog = hlog,
                                !.body = IF beh = "json" THEN "obj" ELSE "text"],
                appStack, 1, initialized)]
  /\ pluginRegistry' = HookRegistry(pluginRegistry)
  /\ last' = Op("request")
  /\ UNCHANGED <<hookFrame, envFrame>>

\* A pending response is written.  own: by the route handler's continuation,
\* which runs in the context the handler was called in and may log first;
\* otherwise by a callback that runs in context caller.
Respond(r, own, caller) ==
  /\ reqs[r].st = "pending"
  /\ own => caller = reqs[r].ctx
  /\ LET q == IF own /\ ~EmitThrows(initialized) THEN HandlerLog(reqs[r], initialized)
              ELSE reqs[r]
     IN reqs' = [reqs EXCEPT ![r] =
          [ResEnd(q, Len(q.chain), initialized, <<q.body>>, caller).q EXCEPT
             !.st = "done", !.by = caller]]
  /\ pluginRegistry' = HookRegistry(pluginRegistry)
  /\ last' = Op("respond")
  /\ UNCHANGED <<hookFrame, envFrame>>

\* The request is over; the next one arrives on a fresh request object.
Forget(r) ==
  /\ reqs[r].st = "done"
  /\ reqs' = [reqs EXCEPT ![r] = IdleReq]
  /\ last' = Op("forget")
  /\ UNCHANGED <<httpFrame, appStack>>

\* ------------------------------------------------- browser: the hooks
\* The try block both handlers share: the errorFilter turns the event down
\* ("filtered"), the exception is logged ("logged"), or something in the block
\* throws (the filter, the contextInjector, the facade) and the catch reports
\* it with console.error ("caught").
HandlerBody(cfg, init) ==
  IF cfg.errorFilter = "throws" THEN "caught"
  ELSE IF cfg.errorFilter = "deny" THEN "filtered"
  ELSE IF cfg.messageFormatter = "throws" THEN "caught"
  ELSE IF cfg.contextInjector = "throws" \/ EmitThrows(init) THEN "caught"
  ELSE "logged"

BodyTrace(h, body) ==
  CASE body = "logged" -> <<[e |-> "exception", h |-> h]>>
    [] body = "caught" -> <<[e |-> "console.error", h |-> h]>>
    [] OTHER -> <<>>

\* A call of the function h as window.onerror.  The plugin's errorHandler
\* returns false from inside the try block when the filter turns the error
\* down; otherwise it ends by calling previousErrorHandler when there is one.
RECURSIVE ErrorHandler(_, _)
ErrorHandler(h, init) ==
  IF h = NoHandler THEN <<>>
  ELSE IF h \in HostHandlers THEN <<[e |-> "host", h |-> h]>>
  ELSE LET cl == setups[h]
           body == HandlerBody(cl.browser, init)
           own == <<[e |-> "errorHandler", h |-> h]>> \o BodyTrace(h, body)
       IN IF body = "filtered" THEN own
          ELSE own \o ErrorHandler(cl.previousErrorHandler, init)

PreventsDefaultAlways(body) == TRUE

\* event.preventDefault() is the last statement of the try block, after
\* instance.exception(...).
PreventsDefault(body) == body = "logged"

\* A call of the function h for an 'unhandledrejection' event.
RejectionHandler(h, init) ==
  IF h \in HostHandlers THEN <<[e |-> "host", h |-> h]>>
  ELSE LET body == HandlerBody(setups[h].browser, init)
       IN <<[e |-> "rejectionHandler", h |-> h]>>
          \o (IF body = "logged" THEN BodyTrace(h, body) ELSE <<>>)
          \o (IF PreventsDefault(body) THEN <<[e |-> "preventDefault", h |-> h]>>
              ELSE <<>>)
          \o (IF body = "caught" THEN BodyTrace(h, body) ELSE <<>>)

\* The event reaches the function in window.onunhandledrejection and the
\* registered listeners.
RECURSIVE DispatchRejection(_, _)
DispatchRejection(hs, init) ==
  IF hs = <<>> THEN <<>>
  ELSE RejectionHandler(Head(hs), init) \o DispatchRejection(Tail(hs), init)

RejectionTargets(win) ==
  (IF win.onunhandledrejection # NoHandler THEN <<win.onunhandledrejection>> ELSE <<>>)
    \o win.listeners

HookPropagatesCaught(body) == body = "caught"

\* catch (e) { console.error(...) }: what the try block throws stays inside
\* the handler.
HookPropagates(body) == FALSE

\* What a handler of the application returns to the browser.
HostReturn(h) == "true"

\* How the call of h as window.onerror ends: the value it returns, or "throws".
RECURSIVE ErrorHandlerOutcome(_, _)
ErrorHandlerOutcome(h, init) ==
  IF h = NoHandler THEN None
  ELSE IF h \in HostHandlers THEN HostReturn(h)
  ELSE LET cl == setups[h]
           body == HandlerBody(cl.browser, init)
       IN IF HookPropagates(body) THEN "throws"
          ELSE IF body = "filtered" \/ cl.previousErrorHandler = NoHandler THEN "false"
          ELSE ErrorHandlerOutcome(cl.previousErrorHandler, init)

\* The value a handler hands to errorFilter, to messageFormatter and to
\* instance.exception: errorHandler passes err to all three, rejectionHandler
\* passes the event to the first two and the extracted error to the third.
HookArgument(hook, fn) ==
  IF hook = "error" \/ fn = "exception" THEN "Error" ELSE "PromiseRejectionEvent"

\* The calls one run of a plugin handler makes, in order, each [fn, h, arg].
HandlerArgs(cfg, hook, h) ==
  LET call(fn) == <<[fn |-> fn, h |-> h, arg |-> HookArgument(hook, fn)]>>
      f == IF cfg.errorFilter # None THEN call("errorFilter") ELSE <<>>
      m == IF cfg.messageFormatter # None THEN call("messageFormatter") ELSE <<>>
  IN IF cfg.errorFilter \in {"deny", "throws"} THEN f
     ELSE IF cfg.messageFormatter = "throws" \/ cfg.contextInjector = "throws"
     THEN f \o m
     ELSE f \o m \o call("exception")

\* The calls of the plugin handlers that ran for one event, from its trace.
RECURSIVE HandlersArgs(_, _)
HandlersArgs(trace, hook) ==
  IF trace = <<>> THEN <<>>
  ELSE (IF Head(trace).e \in {"errorHandler", "rejectionHandler"}
        THEN HandlerArgs(setups[Head(trace).h].browser, hook, Head(trace).h)
        ELSE <<>>) \o HandlersArgs(Tail(trace), hook)

\* An uncaught error: the browser calls window.onerror.
WindowError ==
  /\ window.present
  /\ LET t == ErrorHandler(window.onerror, initialized)
         out == ErrorHandlerOutcome(window.onerror, initialized)
     IN obs' = [kind |-> "error", trace |-> t, threw |-> (out = "throws"),
                ret |-> out, args |-> HandlersArgs(t, "error")]
  /\ pluginRegistry' = HookRegistry(pluginRegistry)
  /\ last' = Op("error")
  /\ UNCHANGED <<hookFrame, reqs, window, mirrorToConsole, page, spans>>

\* A promise is rejected with no handler: the browser fires 'unhandledrejection'.
WindowRejection ==
  /\ window.present
  /\ LET t == DispatchRejection(RejectionTargets(window), initialized)
     IN obs' = [kind |-> "rejection", trace |-> t,
                threw |-> \E k \in 1..Len(window.listeners) :
                            /\ window.listeners[k] \notin HostHandlers
                            /\ HookPropagates(HandlerBody(
                                 setups[window.listeners[k]].browser, initialized)),
                ret |-> None, args |-> HandlersArgs(t, "rejection")]
  /\ pluginRegistry' = HookRegistry(pluginRegistry)
  /\ last' = Op("rejection")
  /\ UNCHANGED <<hookFrame, reqs, window, mirrorToConsole, page, spans>>

\* Other code of the page assigns window.onerror or window.onunhandledrejection,
\* or registers an 'unhandledrejection' listener.
HostSetHook(slot, h) ==
  /\ window.present /\ window[slot] # h
  /\ window' = [window EXCEPT ![slot] = h]
  /\ last' = Op("host")
  /\ UNCHANGED <<hookFrame, pluginRegistry, reqs, obs, mirrorToConsole, page, spans>>

HostAddListener(h) ==
  /\ window.present /\ AddEventListener(window.listeners, h) # window.listeners
  /\ window' = [window EXCEPT !.listeners = AddEventListener(@, h)]
  /\ last' = Op("host")
  /\ UNCHANGED <<hookFrame, pluginRegistry, reqs, obs, mirrorToConsole, page, spans>>

\* ------------------------------------------------- the logging methods
\* The attributes a caller passes: none, an object JSON.stringify accepts, or
\* one it throws on (a circular structure).
AttrKinds == {"none", "plain", "circular"}

LogMethods == {"debug", "info", "warn", "error", "exception"}

\* exception() logs at ERROR and always adds the exception.* attributes.
MethodSeverity(method) == IF method = "exception" THEN "error" ELSE method

MethodAttrs(method, attrs) ==
  IF method = "exception" /\ attrs = "none" THEN "plain" ELSE attrs

\* attributes && Object.keys(attributes).length > 0 ? JSON.stringify(attributes) : ''
StringifyThrows(attrs) == attrs = "circular"

ConsoleMethod(sev) ==
  CASE sev = "debug" -> "console.debug"
    [] sev = "info" -> "console.info"
    [] sev = "warn" -> "console.warn"
    [] OTHER -> "console.error"

\* emit(sev, body, attributes): what it writes to the console and hands to the
\* logger, and whether it throws.
Emit(init, mirror, sev, attrs) ==
  IF EmitThrows(init) THEN [trace |-> <<>>, threw |-> TRUE]
  ELSE IF mirror /\ StringifyThrows(attrs) THEN [trace |-> <<>>, threw |-> TRUE]
  ELSE [trace |-> (IF mirror THEN <<[e |-> ConsoleMethod(sev), h |-> NoHandler]>>
                   ELSE <<>>) \o <<[e |-> "logger.emit", h |-> NoHandler]>>,
        threw |-> FALSE]

\* The application calls logzai.info / debug / warn / error / exception.
LogCall(method, attrs) ==
  /\ LET r == Emit(initialized, mirrorToConsole, MethodSeverity(method),
                   MethodAttrs(method, attrs))
     IN obs' = [NoObs EXCEPT !.kind = method, !.trace = r.trace, !.threw = r.threw]
  /\ last' = [Op("log") EXCEPT !.name = attrs]
  /\ UNCHANGED <<hookFrame, pluginRegistry, reqs, window, mirrorToConsole, page, spans>>

\* ------------------------------------------------------- span(name, fn)
\* fn returns a value, throws, or returns a promise that resolves or rejects
\* later; val is the value returned, thrown or settled with.
FnKinds == {"returns", "throws", "resolves", "rejects"}
SpanValues == {"v", "w"}

Pending == [kind |-> "pending", val |-> None]

EndOnSuccess(failed) == IF failed THEN 0 ELSE 1

\* try { return await fn(span); } finally { span.end(); }: the number of
\* span.end() calls made on leaving the try block.
FinallyEnd(failed) == 1

spanFrame == <<initialized, pluginRegistry, setups, cleanupCalls, promises, unhandled,
               sd, active, appStack, appResponse, reqs, window, obs, mirrorToConsole,
               page>>

\* span(name, fn): startActiveSpan opens the span and calls the async callback,
\* which calls fn(span).  A throw of fn leaves the try block at once and
\* rejects the promise the callback returns; otherwise the callback suspends
\* at the await, also when fn returned a plain value.
SpanCall(fn, v) ==
  /\ spans' = Append(spans,
                 IF fn = "throws"
                 THEN [fn |-> fn, val |-> v, pc |-> "done", settled |-> FALSE,
                       ends |-> FinallyEnd(TRUE),
                       out |-> [kind |-> "rejected", val |-> v]]
                 ELSE [fn |-> fn, val |-> v, pc |-> "await",
                       settled |-> (fn = "returns"), ends |-> 0, out |-> Pending])
  /\ last' = Op("span")
  /\ UNCHANGED spanFrame

\* The promise fn returned settles.
FnSettle(i) ==
  /\ spans[i].pc = "await"
  /\ ~spans[i].settled
  /\ spans' = [spans EXCEPT ![i].settled = TRUE]
  /\ last' = Op("fn")
  /\ UNCHANGED spanFrame

\* The callback goes on after the await: the awaited value is returned, or the
\* rejection is thrown, through the finally block.
SpanResume(i) ==
  /\ spans[i].pc = "await"
  /\ spans[i].settled
  /\ LET failed == spans[i].fn = "rejects"
     IN spans' = [spans EXCEPT ![i].pc = "done",
                               ![i].ends = @ + FinallyEnd(failed),
                               ![i].out = [kind |-> IF failed THEN "rejected"
                                                    ELSE "resolved",
                                           val |-> spans[i].val]]
  /\ last' = Op("spanEnd")
  /\ UNCHANGED spanFrame

\* The page fires a beforeunload or a pagehide event: the listeners registered
\* for it at that moment are called one after the other.
UnloadEvent(type) ==
  /\ window.present
  /\ page.pending = <<>>
  /\ page[type] # <<>>
  /\ page' = [page EXCEPT !.pending = page[type], !.type = type]
  /\ last' = Op("unload")
  /\ UNCHANGED <<initialized, pluginRegistry, setups, cleanupCalls, promises,
                 unhandled, sd, active, appStack, appResponse, reqs, window, obs,
                 mirrorToConsole, spans>>

\* The next listener of the dispatch: () => { this.shutdown().catch(...) }.
\* A listener removed since the dispatch began is not called.
UnloadListener ==
  /\ page.pending # <<>>
  /\ LET h == Head(page.pending)
         ls == page[page.type]
         rest == [page EXCEPT !.pending = Tail(@)]
     IN IF \E i \in 1..Len(ls) : ls[i] = h
        THEN \E s \in ShutdownIds : ShutdownFrom(s, rest)
        ELSE /\ page' = rest
             /\ last' = Op("removed")
             /\ UNCHANGED <<initialized, pluginRegistry, setups, cleanupCalls,
                            promises, unhandled, sd, active, appStack, appResponse,
                            reqs, window, obs, mirrorToConsole, spans>>

\* ------------------------------------------------------- specification
InitIn(win) ==
  /\ initialized = FALSE
  /\ pluginRegistry = <<>>
  /\ setups = <<>>
  /\ cleanupCalls = [i \in 1..MaxSetups |-> 0]
  /\ promises = {}
  /\ unhandled = FALSE
  /\ sd = [s \in ShutdownIds |-> [pc |-> "idle", idx |-> 0, wait |-> 0,
                                  invoked |-> <<>>, caught |-> <<>>]]
  /\ active = {}
  /\ last = Op("new")
  /\ appStack = <<>>
  /\ appResponse = [json |-> "json0", send |-> "send0"]
  /\ reqs = [r \in ReqIds |-> IdleReq]
  /\ window = win
  /\ obs = NoObs
  /\ mirrorToConsole = FALSE
  /\ page = NoPage
  /\ spans = <<>>

Init == InitIn(NoWindow)

CallPlugin ==
  \E name \in Names, p \in PluginFns :
    \E cfg \in (IF p = "expressPlugin" THEN RegistryCfgs ELSE {NoCfg}) :
      Plugin(name, p, cfg)

CallUnregister == \E name \in Names : UnregisterPlugin(name)

CallShutdown == \E s \in ShutdownIds : ShutdownCall(s)

Resume == \E s \in ShutdownIds, o \in {"resolved", "rejected"} : ShutdownResume(s, o)

Backend == \E s \in ShutdownIds : BackendDone(s)

SettlePromise == \E pr \in promises, o \in {"resolved", "rejected"} : Settle(pr, o)

Next ==
  \/ LogzInit
  \/ CallPlugin
  \/ CallUnregister
  \/ CallShutdown
  \/ Resume
  \/ Backend
  \/ SettlePromise

Spec == Init /\ [][Next]_vars

\* The host app with the express plugin: logzai.plugin('express', expressPlugin,
\* cfg), unregisterPlugin('express'), routes and one request at a time.
HttpCfgs == {NoCfg, DefaultCfg,
             [DefaultCfg EXCEPT !.logRequests = FALSE],
             [DefaultCfg EXCEPT !.logResponses = FALSE],
             [DefaultCfg EXCEPT !.logRequests = FALSE, !.logResponses = FALSE],
             [DefaultCfg EXCEPT !.contextInjector = "throws"],
             [DefaultCfg EXCEPT !.contextInjector = "throws", !.logRequests = FALSE],
             [DefaultCfg EXCEPT !.captureErrors = FALSE],
             [DefaultCfg EXCEPT !.skipPaths = {PathH}],
             [DefaultCfg EXCEPT !.requestFilter = "deny"]}

HttpPlugin ==
  /\ Len(setups) < MaxHttpSetups
  /\ \E cfg \in HttpCfgs : Plugin("express", "expressPlugin", cfg)

HttpUnregister == UnregisterPlugin("express")

HttpRequest ==
  \E path \in Paths, beh \in {"respond", "json", "twice", "throw", "async"},
     status \in {200, 404, 500} :
    Request(1, path, beh, status, 0, FALSE)

HttpRespond == Respond(1, TRUE, reqs[1].ctx)

HttpForget == Forget(1)

NextHttp ==
  \/ LogzInit
  \/ HttpPlugin
  \/ HttpUnregister
  \/ AddRoute
  \/ HttpRequest
  \/ HttpRespond
  \/ HttpForget

SpecHttp == Init /\ [][NextHttp]_vars

\* One express plugin instance and the ways a route handler answers: the time
\* the request takes against slowRequestThreshold, res.end, res.json, res.send.
ReqCfgs == {DefaultCfg,
            [DefaultCfg EXCEPT !.slowRequestThreshold = 1],
            [DefaultCfg EXCEPT !.slowRequestThreshold = 1, !.logResponses = FALSE],
            [DefaultCfg EXCEPT !.slowRequestThreshold = 1, !.logRequests = FALSE],
            [DefaultCfg EXCEPT !.slowRequestThreshold = 0],
            [DefaultCfg EXCEPT !.slowRequestThreshold = 1, !.skipPaths = {PathH}]}

ReqPlugin ==
  /\ Len(setups) < MaxReqSetups
  /\ \E cfg \in ReqCfgs : Plugin("express", "expressPlugin", cfg)

ReqRequest ==
  \E path \in Paths, beh \in {"respond", "json", "send", "throw"},
     status \in {200, 404}, dur \in 0..MaxDuration :
    Request(1, path, beh, status, dur, FALSE)

NextReq ==
  \/ LogzInit
  \/ ReqPlugin
  \/ AddRoute
  \/ ReqRequest
  \/ HttpForget

SpecReq == Init /\ [][NextReq]_vars

\* The express plugin on an app whose response entry points other code
\* replaces: registrations, unregisterPlugin('express'), requests answered
\* through res.json and res.send.
MaxPatchSetups == 2

PatchPlugin ==
  /\ Len(setups) < MaxPatchSetups
  /\ Plugin("express", "expressPlugin", DefaultCfg)

PatchHost ==
  \/ \E v \in {"json0", "json1"} : HostPatch("json", v)
  \/ \E v \in {"send0", "send1"} : HostPatch("send", v)

PatchRequest ==
  \E beh \in {"json", "send"} : Request(1, PathU, beh, 200, 0, FALSE)

NextPatch ==
  \/ LogzInit
  \/ PatchPlugin
  \/ HttpUnregister
  \/ PatchHost
  \/ AddRoute
  \/ PatchRequest
  \/ HttpForget

SpecPatch == Init /\ [][NextPatch]_vars

\* A page with the browser plugin: what the page had in window.onerror,
\* window.onunhandledrejection and among the listeners before, a registration,
\* unregisterPlugin, shutdown, and the two events.
MaxWinSetups == 1

WinCfgs == {BrowserCfg,
            [BrowserCfg EXCEPT !.errorFilter = "allow"],
            [BrowserCfg EXCEPT !.errorFilter = "deny"],
            [BrowserCfg EXCEPT !.errorFilter = "throws"],
            [BrowserCfg EXCEPT !.contextInjector = "throws"],
            [BrowserCfg EXCEPT !.errorFilter = "allow", !.messageFormatter = "ok"],
            [BrowserCfg EXCEPT !.messageFormatter = "throws"],
            [BrowserCfg EXCEPT !.captureErrors = FALSE],
            [BrowserCfg EXCEPT !.captureUnhandledRejections = FALSE]}

WinHost ==
  /\ Len(setups) = 0
  /\ \/ HostSetHook("onerror", 101)
     \/ HostSetHook("onunhandledrejection", 102)
     \/ HostAddListener(102)

WinPlugin ==
  /\ Len(setups) < MaxWinSetups
  /\ \E name \in Names, cfg \in WinCfgs : Plugin(name, "browserPlugin", cfg)

InitWin == InitIn(NoWindow) \/ InitIn(BrowserWindow)

NextWin ==
  \/ LogzInit
  \/ WinHost
  \/ WinPlugin
  \/ CallUnregister
  \/ CallShutdown
  \/ Resume
  \/ Backend
  \/ WindowError
  \/ WindowRejection

SpecWin == InitWin /\ [][NextWin]_vars

\* A page on which the browser plugin is registered more than once, under
\* different names: the instances stack on window.onerror.
MaxStackSetups == 2

StackCfgs == {BrowserCfg, [BrowserCfg EXCEPT !.captureUnhandledRejections = FALSE]}

StackPlugin ==
  /\ Len(setups) < MaxStackSetups
  /\ \E name \in Names, cfg \in StackCfgs : Plugin(name, "browserPlugin", cfg)

NextStack ==
  \/ LogzInit
  \/ WinHost
  \/ StackPlugin
  \/ CallUnregister
  \/ CallShutdown
  \/ Resume
  \/ Backend
  \/ WindowError
  \/ WindowRejection

SpecStack == InitWin /\ [][NextStack]_vars

\* A facade with both plugins registered: the express plugin's middlewares
\* and wrappers and the browser plugin's handlers run between registrations,
\* unregistrations and a shutdown.
MaxHookSetups == 2

HookNames == {"express", "browser"}

HookPlugin ==
  /\ Len(setups) < MaxHookSetups
  /\ \/ Plugin("express", "expressPlugin", DefaultCfg)
     \/ Plugin("browser", "browserPlugin", BrowserCfg)

HookUnregister == \E name \in HookNames : UnregisterPlugin(name)

HookRequest ==
  \E beh \in {"json", "throw", "async"} : Request(1, PathU, beh, 200, 0, FALSE)

NextHook ==
  \/ LogzInit
  \/ HookPlugin
  \/ HookUnregister
  \/ CallShutdown
  \/ Resume
  \/ Backend
  \/ AddRoute
  \/ HookRequest
  \/ HttpRespond
  \/ HttpForget
  \/ WindowError
  \/ WindowRejection

SpecHook == InitWin /\ [][NextHook]_vars

\* The logging methods of the facade before and after init, with and without
\* the console mirror, and around a shutdown.
MaxLogSetups == 1

LogInit == \E mirror \in BOOLEAN : FacadeInit(mirror)

LogPlugin ==
  /\ Len(setups) < MaxLogSetups
  /\ Plugin("a", "pSync", NoCfg)

Log == \E method \in LogMethods, attrs \in AttrKinds : LogCall(method, attrs)

NextLog ==
  \/ LogInit
  \/ LogPlugin
  \/ CallShutdown
  \/ Resume
  \/ Backend
  \/ Log

SpecLog == Init /\ [][NextLog]_vars

\* One express plugin instance with skipPaths patterns, and requests on every
\* path of up to MaxPathLen characters.
SkipChars == {"/", "a", "."}

SkipPatterns == {<<"/", "a">>, <<"/", ".">>, <<"/", "*">>, <<"/", "a", "/", "*">>,
                 <<"/", ".", "*">>, <<"/", "*", ".", "a">>, <<"*">>}

SkipPathSet ==
  UNION {{s \in [1..n -> SkipChars] : s[1] = "/"} : n \in 1..MaxPathLen}

SkipCfgs ==
  {[DefaultCfg EXCEPT !.skipPaths = {p}] : p \in SkipPatterns}
    \cup {[DefaultCfg EXCEPT !.skipPaths = {<<"/", "a">>, <<"/", "a", "/", "*">>}]}

SkipPlugin ==
  /\ Len(setups) < MaxSkipSetups
  /\ \E cfg \in SkipCfgs : Plugin("express", "expressPlugin", cfg)

SkipRequestOn == \E path \in SkipPathSet : Request(1, path, "respond", 200, 0, FALSE)

NextSkip ==
  \/ LogzInit
  \/ SkipPlugin
  \/ SkipRequestOn
  \/ HttpForget

SpecSkip == Init /\ [][NextSkip]_vars

\* Requests in flight at the same time: route handlers that log through the
\* facade and answer at once or later, from their own continuation or from a
\* callback running in another context.
ConcCfgs == {DefaultCfg, [DefaultCfg EXCEPT !.slowRequestThreshold = 1]}

ConcPlugin ==
  /\ Len(setups) < MaxConcSetups
  /\ \E cfg \in ConcCfgs : Plugin("express", "expressPlugin", cfg)

ConcRequest ==
  \E r \in ReqIds, beh \in {"respond", "async"}, dur \in {0, MaxDuration} :
    Request(r, PathU, beh, 200, dur, TRUE)

ConcRespond ==
  \E r \in ReqIds, own \in BOOLEAN,
     caller \in {RootCtx} \cup {reqs[x].ctx : x \in ReqIds} :
    Respond(r, own, caller)

ConcForget == \E r \in ReqIds : Forget(r)

NextConc ==
  \/ LogzInit
  \/ ConcPlugin
  \/ AddRoute
  \/ ConcRequest
  \/ ConcRespond
  \/ ConcForget

SpecConc == Init /\ [][NextConc]_vars


\* ================================================================ claims
Range(seq) == {seq[i] : i \in 1..Len(seq)}

Increasing(seq) == \A i, j \in 1..Len(seq) : i < j => seq[i] < seq[j]

LiveNames(reg) == {reg[i].name : i \in {k \in 1..Len(reg) : reg[k].live}}

\* The entries of a registry, as the set of their [name, plugin, cleanup].
Entries(reg) == {[name |-> reg[i].name, plugin |-> reg[i].plugin, cleanup |-> reg[i].cleanup] :
                   i \in {k \in 1..Len(reg) : reg[k].live}}

\* The cleanups shutdown() s has still to invoke when it finishes the drain of
\* registry reg: the stored cleanups it did not invoke.
Uninvoked(reg, inv) ==
  {reg[i].cleanup : i \in {k \in 1..Len(reg) :
      reg[k].live /\ CleanupKind(reg[k].plugin) # "none"}} \ Range(inv)

Drained(pc) == pc \in {"backend", "backendFailed", "done"}

\* The logs of one type emitted for a request (positions in its logs).
LogsOf(q, type) == {i \in 1..Len(q.logs) : q.logs[i].type = type}

\* The events of one kind in a request's trace (positions in the trace).
Events(q, e) == {i \in 1..Len(q.trace) : q.trace[i].e = e}

IsResponseLog(ev) == ev.e = "log" /\ ev.arg = <<"http.response">>

IsSlowLog(ev) == ev.e = "log" /\ ev.arg = <<"http.slow_request">>

\* What the res.end wrapper of one plugin instance did for a request, in order.
WrapperTrace(q, inst) ==
  SelectSeq(q.trace,
            LAMBDA ev : /\ ev.inst = inst
                        /\ \/ ev.e \in {"res.end", "setStatus", "span.end", "originalEnd"}
                           \/ IsResponseLog(ev) \/ IsSlowLog(ev))

\* The call of the wrapper that event j of such a trace belongs to.
CallOf(S, j) ==
  CHOOSE k \in 1..j : S[k].e = "res.end" /\ \A m \in (k + 1)..j : S[m].e # "res.end"

\* C1: plugin(name, ...) while name is present never invokes the setup
\* function, does not throw, and leaves the stored entry (and everything else
\* of the registry and the host app) unchanged.
C1_DuplicateIsNoOp ==
  [][(last'.op = "plugin" /\ MapHas(pluginRegistry, last'.name))
       => /\ ~last'.threw
          /\ last'.setup = None
          /\ setups' = setups
          /\ pluginRegistry' = pluginRegistry
          /\ appStack' = appStack]_vars

C1_Witness == last.op = "plugin" /\ last.had /\ MapHas(pluginRegistry, last.name)

\* C2: every stored cleanup is invoked at most once per registration, whatever
\* the interleaving of plugin(), unregisterPlugin() and shutdown().
C2_CleanupAtMostOnce == \A id \in DOMAIN cleanupCalls : cleanupCalls[id] <= 1

\* C3: shutdown() invokes the cleanups in registration order (cleanup ids
\* number the registrations), and when its drain ends it has invoked the
\* cleanup of every entry then present; an earlier unregisterPlugin() of
\* another entry does not change that order.
C3_DrainInRegistrationOrder ==
  [][\A s \in ShutdownIds :
       /\ Increasing(sd'[s].invoked)
       /\ (~Drained(sd[s].pc) /\ Drained(sd'[s].pc))
            => Uninvoked(pluginRegistry, sd'[s].invoked) = {}]_vars

C3_Witness ==
  \E s \in ShutdownIds :
    /\ Drained(sd[s].pc)
    /\ sd[s].invoked = <<2, 3>>
    /\ cleanupCalls[1] = 1

\* C4: a cleanup that throws or rejects during shutdown() does not fail the
\* drain, does not keep later entries' cleanups from being invoked, and the
\* registry is cleared when the drain ends.
C4_DrainSurvivesFailure ==
  [][\A s \in ShutdownIds :
       /\ sd'[s].pc # "drainFailed"
       /\ (sd'[s].caught # <<>> /\ ~Drained(sd[s].pc) /\ Drained(sd'[s].pc))
            => /\ Uninvoked(pluginRegistry, sd'[s].invoked) = {}
               /\ MapSize(pluginRegistry') = 0]_vars

C4_Witness ==
  \E s \in ShutdownIds :
    /\ Drained(sd[s].pc)
    /\ Len(sd[s].invoked) >= 2
    /\ sd[s].invoked[1] \in Range(sd[s].caught)
    /\ MapSize(pluginRegistry) = 0

\* C5: as long as only plugin() and unregisterPlugin() have been called, the
\* registry holds one entry for each name registered and not yet unregistered,
\* and no name has two entries.
C5_SizeIsLiveNames ==
  (\A s \in ShutdownIds : sd[s].pc = "idle")
    => /\ MapSize(pluginRegistry) = Cardinality(active)
       /\ LiveNames(pluginRegistry) = active
       /\ \A i, j \in 1..Len(pluginRegistry) :
            (pluginRegistry[i].live /\ pluginRegistry[j].live
               /\ pluginRegistry[i].name = pluginRegistry[j].name) => i = j

C5_Witness ==
  /\ \A s \in ShutdownIds : sd[s].pc = "idle"
  /\ Len(setups) = 3
  /\ last.op = "unregister" /\ last.had
  /\ Cardinality(active) = 1

\* C6: when the setup function throws, plugin() adds no entry, leaves the
\* other entries as they are and throws to its caller; the express plugin's
\* setup throws when the config or its app is missing.
C6_SetupThrowPropagates ==
  [][(last'.op = "plugin" /\ ~MapHas(pluginRegistry, last'.name))
       => /\ last'.noApp => last'.setup = "threw"
          /\ last'.setup = "threw"
               => /\ last'.threw
                  /\ pluginRegistry' = pluginRegistry]_vars

C6_Witness ==
  /\ last.op = "plugin" /\ last.noApp /\ last.threw
  /\ MapSize(pluginRegistry) = 1

\* C7: unregisterPlugin(name) changes nothing and invokes nothing when name is
\* absent; otherwise it invokes the stored cleanup once, does not throw even if
\* the cleanup throws, attaches a handler to a returned promise (so a rejection
\* is never unhandled), and removes that entry and no other.
C7_UnregisterNeverPropagates ==
  [][(last'.op = "unregister")
       => /\ ~last'.threw
          /\ ~unhandled'
          /\ ~MapHas(pluginRegistry', last'.name)
          /\ \A pr \in promises' \ promises : pr.handled
          /\ IF MapHas(pluginRegistry, last'.name)
             THEN LET e == pluginRegistry[MapIndex(pluginRegistry, last'.name)]
                  IN /\ Entries(pluginRegistry') =
                          Entries(pluginRegistry) \ {[name |-> e.name, plugin |-> e.plugin,
                                                      cleanup |-> e.cleanup]}
                     /\ cleanupCalls' =
                          IF CleanupKind(e.plugin) = "none" THEN cleanupCalls
                          ELSE [cleanupCalls EXCEPT ![e.cleanup] = @ + 1]
             ELSE /\ pluginRegistry' = pluginRegistry
                  /\ cleanupCalls' = cleanupCalls
                  /\ promises' = promises
                  /\ appResponse' = appResponse]_vars

C7_Witness ==
  /\ last.op = "unregister" /\ last.had /\ ~last.threw
  /\ \E id \in DOMAIN cleanupCalls : cleanupCalls[id] = 1
  /\ Len(pluginRegistry) >= 1 /\ ~pluginRegistry[1].live
  /\ Len(setups) = 1
  /\ promises = {}

\* C8: within one shutdown() a cleanup is started only after the promise of
\* the previous one has settled: the call has at most one pending promise, the
\* one it awaits, and none once the drain has ended.
C8_DrainIsSerial ==
  \A s \in ShutdownIds :
    LET mine == {pr \in promises : pr.owner = s}
    IN /\ Cardinality(mine) <= 1
       /\ mine # {} => (sd[s].pc = "await" /\ \A pr \in mine : pr.id = sd[s].wait)
       /\ sd[s].pc = "await" /\ sd[s].wait # 0 => sd[s].invoked[Len(sd[s].invoked)] = sd[s].wait

C8_Witness ==
  \E s \in ShutdownIds :
    /\ sd[s].pc = "await"
    /\ sd[s].wait # 0
    /\ Len(sd[s].invoked) = 2
    /\ cleanupCalls[sd[s].invoked[1]] = 1
    /\ [id |-> sd[s].wait, owner |-> s, handled |-> TRUE] \in promises

\* C9: the providers' shutdown starts only when the registry has been cleared
\* and every cleanup this shutdown() invoked has settled, every entry that was
\* present having had its cleanup invoked.
C9_BackendAfterDrain ==
  [][\A s \in ShutdownIds :
       (sd[s].pc # "backend" /\ sd'[s].pc = "backend")
         => /\ MapSize(pluginRegistry') = 0
            /\ {pr \in promises' : pr.owner = s} = {}
            /\ Uninvoked(pluginRegistry, sd'[s].invoked) = {}]_vars

C9_Witness ==
  \E s \in ShutdownIds :
    /\ sd[s].pc = "backend"
    /\ Len(sd[s].invoked) = 2
    /\ MapSize(pluginRegistry) = 0

\* C10: every span the express plugin opened for a request whose response has
\* been finalized is closed exactly once, whatever the config and whichever way
\* the handling went (a throwing contextInjector or logging call, a second
\* res.end call).
C10_SpanClosedExactlyOnce ==
  \A r \in ReqIds :
    (reqs[r].st = "done" /\ reqs[r].finalized >= 1)
      => \A n \in 1..Len(reqs[r].spans) : reqs[r].spans[n].ends = 1

\* C11: after register/unregister cycles of the express plugin on one host app
\* and one more registration (every registration with the default config on
\* an initialised facade), a request answered through res.json passes one
\* layer of instrumentation: one span, one response log, one wrapper on
\* res.end, and the json and send serializers each called through one wrapper.
C11_OneLayerAfterCycles ==
  [][(/\ last'.op = "request"
      /\ MapHas(pluginRegistry, "express")
      /\ Len(setups) >= 2
      /\ \A i \in 1..Len(setups) : setups[i].cfg = DefaultCfg
      /\ \A i \in 1..(Len(setups) - 1) : cleanupCalls[i] = 1
      /\ reqs'[1].st = "done" /\ reqs'[1].beh = "json"
      /\ Events(reqs'[1], "route") # {})
       => /\ Len(reqs'[1].spans) = 1
          /\ Cardinality(LogsOf(reqs'[1], "http.response")) = 1
          /\ Len(reqs'[1].chain) = 1
          /\ Cardinality(Events(reqs'[1], "res.json")) = 1
          /\ Cardinality(Events(reqs'[1], "res.send")) = 1]_vars

\* C12: a finalized request instrumented by one plugin instance with
\* logResponses on has exactly one response-summary log, at error severity for a
\* status of 500 and above, warn for 400 to 499 and info below, and its span
\* is marked errored exactly when the status is 400 or above.
C12_OneResponseLogBySeverity ==
  \A r \in ReqIds :
    (/\ reqs[r].st = "done" /\ reqs[r].finalized >= 1
     /\ Len(reqs[r].spans) = 1 /\ Len(reqs[r].chain) = 1
     /\ setups[reqs[r].spans[1].inst].cfg.logResponses)
      => /\ Cardinality(LogsOf(reqs[r], "http.response")) = 1
         /\ \A i \in LogsOf(reqs[r], "http.response") :
              reqs[r].logs[i].sev = (CASE reqs[r].status >= 500 -> "error"
                                       [] reqs[r].status \in 400..499 -> "warn"
                                       [] OTHER -> "info")
         /\ (reqs[r].spans[1].status = "error") <=> (reqs[r].status >= 400)

\* C13: a finalized request instrumented by one plugin instance gets exactly
\* one warn-level slow-request log when slowRequestThreshold is set and the
\* request's duration exceeds it, whatever the rest of the config, and none
\* when the threshold is unset or not exceeded.
C13_SlowRequestLog ==
  \A r \in ReqIds :
    (/\ reqs[r].st = "done" /\ reqs[r].finalized = 1
     /\ Len(reqs[r].spans) = 1 /\ Len(reqs[r].chain) = 1)
      => LET cfg == setups[reqs[r].spans[1].inst].cfg
             slow == LogsOf(reqs[r], "http.slow_request")
         IN /\ \A i \in slow : reqs[r].logs[i].sev = "warn"
            /\ Cardinality(slow) =
                 (IF cfg.slowRequestThreshold # NoThreshold
                       /\ reqs[r].dur > cfg.slowRequestThreshold
                  THEN 1 ELSE 0)

C15_SkippedRequestUntouched ==
  \A r \in ReqIds : \A inst \in 1..Len(setups) :
    LET q == reqs[r]
        cfg == setups[inst].cfg
    IN (q.st # "idle" /\ (q.path \in cfg.skipPaths \/ cfg.requestFilter = "deny"))
         => /\ \A n \in 1..Len(q.spans) : q.spans[n].inst # inst
            /\ \A i \in 1..Len(q.logs) :
                 q.logs[i].inst = inst
                   => q.logs[i].type \notin {"http.request", "http.response",
                                             "http.slow_request"}
            /\ q.json # inst /\ q.send # inst
            /\ \A i \in 1..Len(q.trace) :
                 q.trace[i].inst = inst => q.trace[i].e # "res.end"
            /\ \A i \in Events(q, "loggingMiddleware") :
                 q.trace[i].inst = inst
                   => /\ i < Len(q.trace)
                      /\ q.trace[i + 1] = [e |-> "next", inst |-> inst, arg |-> <<>>]
            /\ Cardinality({i \in Events(q, "next") :
                               q.trace[i].inst = inst /\ q.trace[i].arg = <<>>})
                 = Cardinality({i \in Events(q, "loggingMiddleware") :
                                  q.trace[i].inst = inst})

C15_Witness ==
  /\ reqs[1].st = "done" /\ reqs[1].path = PathH /\ reqs[1].beh = "respond"
  /\ Len(setups) = 1 /\ setups[1].cfg.skipPaths = {PathH}
  /\ reqs[1].trace = << [e |-> "loggingMiddleware", inst |-> 1, arg |-> <<>>],
                        [e |-> "next", inst |-> 1, arg |-> <<>>],
                        [e |-> "route", inst |-> 0, arg |-> <<>>],
                        [e |-> "end", inst |-> 0, arg |-> <<"text">>] >>
  /\ reqs[1].spans = <<>> /\ reqs[1].logs = <<>> /\ reqs[1].finalized = 1

\* C16: shouldSkipPath(path) is true exactly when some skipPaths pattern has no
\* wildcard and equals the path, or has a wildcard and matches the whole path
\* with every '*' standing for any (possibly empty) character sequence and every
\* other character standing for itself only; '/a/*' skips '/a/a' and not '/a'.
RECURSIVE GlobMatch(_, _)
GlobMatch(pat, str) ==
  IF pat = <<>> THEN str = <<>>
  ELSE IF Head(pat) = "*"
  THEN \E k \in 0..Len(str) : GlobMatch(Tail(pat), SubSeq(str, k + 1, Len(str)))
  ELSE str # <<>> /\ Head(pat) = Head(str) /\ GlobMatch(Tail(pat), Tail(str))

GlobSkip(skipPaths, path) ==
  \E p \in skipPaths :
    IF \E i \in 1..Len(p) : p[i] = "*" THEN GlobMatch(p, path) ELSE p = path

C16_SkipPathIsGlob ==
  /\ ShouldSkipPath({<<"/", "a", "/", "*">>}, <<"/", "a", "/", "a">>)
  /\ ~ShouldSkipPath({<<"/", "a", "/", "*">>}, <<"/", "a">>)
  /\ \A r \in ReqIds :
       (reqs[r].st = "done" /\ Len(setups) = 1)
         => (Events(reqs[r], "startSpan") = {}
               <=> GlobSkip(setups[1].cfg.skipPaths, reqs[r].path))

\* C17: every call of the express plugin's error middleware with error e on a
\* path that is not skipped records e on the request's span (when it has one),
\* emits one exception log and then calls next(e), once and with e itself; on
\* a skipped path it emits nothing and calls next(e).  (Requests handled on an
\* initialised facade.)
ErrorCallsPassOn(q) ==
  \A i \in Events(q, "errorMiddleware") :
    LET inst == q.trace[i].inst
        e == q.trace[i].arg
        k == IF q.logzaiSpan # 0 THEN 1 ELSE 0
    IN IF q.path \in setups[inst].cfg.skipPaths
       THEN /\ i + 1 <= Len(q.trace)
            /\ q.trace[i + 1] = [e |-> "next", inst |-> inst, arg |-> e]
       ELSE /\ i + k + 2 <= Len(q.trace)
            /\ k = 1 => /\ q.trace[i + 1] = [e |-> "recordException", inst |-> inst, arg |-> e]
                        /\ q.spans[q.logzaiSpan].exceptions >= 1
                        /\ q.spans[q.logzaiSpan].status = "error"
            /\ q.trace[i + k + 1] = [e |-> "log", inst |-> inst, arg |-> <<"http.error">>]
            /\ q.trace[i + k + 2] = [e |-> "next", inst |-> inst, arg |-> e]

C17_ErrorMiddlewarePassesOn ==
  [][(last'.op = "request" /\ initialized)
       => \A r \in ReqIds : ErrorCallsPassOn(reqs'[r])]_vars

\* C18: with captureErrors on, an exception thrown by a route handler on a path
\* that is not skipped is logged by the plugin exactly once and then reaches
\* the host's own error handling, wherever the route stands in the host's
\* stack relative to the plugin's layers.  (One plugin instance, registered on
\* an initialised facade, with a contextInjector that does not throw.)
C18_RouteErrorLoggedOnce ==
  [][(/\ last'.op = "request" /\ initialized
      /\ Len(setups) = 1 /\ MapHas(pluginRegistry, "express")
      /\ setups[1].cfg.captureErrors /\ ~InjectorThrows(setups[1].cfg)
      /\ reqs'[1].path \notin setups[1].cfg.skipPaths
      /\ reqs'[1].beh = "throw" /\ Events(reqs'[1], "route") # {})
       => /\ Cardinality(LogsOf(reqs'[1], "http.error")) = 1
          /\ \E i \in Events(reqs'[1], "final") : reqs'[1].trace[i].arg = <<"e">>]_vars

\* C19: whatever the interleaving of the requests in flight, every log the
\* plugin emits for a request (request, response-summary, slow-request) is
\* emitted with that request's span of that plugin instance as the active
\* context, and every log of a route handler downstream of the plugin with the
\* request's span active; never the root context or another request's span.
C19_LogsUnderOwnSpan ==
  \A r \in ReqIds : \A i \in 1..Len(reqs[r].logs) :
    LET q == reqs[r]
        l == q.logs[i]
    IN IF l.inst # 0
       THEN /\ l.ctx.r = r
            /\ l.ctx.n \in 1..Len(q.spans)
            /\ q.spans[l.ctx.n].inst = l.inst
       ELSE (\E s \in Events(q, "startSpan"), h \in Events(q, "route") : s < h)
              => l.ctx = [r |-> r, n |-> q.logzaiSpan]

C19_Witness ==
  /\ reqs[1].st = "done" /\ reqs[1].beh = "async"
  /\ reqs[2].st = "pending" /\ reqs[2].spans # <<>>
  /\ reqs[1].by = reqs[2].ctx
  /\ Cardinality(LogsOf(reqs[1], "http.response")) = 1
  /\ Cardinality(LogsOf(reqs[1], "http.slow_request")) = 1
  /\ Cardinality(LogsOf(reqs[1], "handler")) = 1
  /\ Cardinality(LogsOf(reqs[2], "handler")) = 1

\* C20: the wrappers installed on res.json and res.send call the serializer the
\* plugin captured once, on the same response and with the body they were
\* given, hand its result back to the caller, and leave the response's status
\* and headers as the handler set them: the response ends with the bytes,
\* status and headers the host's serializers produce on their own.
C20_SerializerWrappersTransparent ==
  \A r \in ReqIds :
    LET q == reqs[r]
        json == [fn |-> "json0", recv |-> r, body |-> "obj", status |-> q.status,
                 headers |-> {}]
        sendJson == [fn |-> "send0", recv |-> r, body |-> "{}", status |-> q.status,
                     headers |-> {<<"Content-Type", "application/json">>}]
        sendText == [fn |-> "send0", recv |-> r, body |-> "text", status |-> q.status,
                     headers |-> {}]
    IN (/\ q.st = "done" /\ ~q.err /\ q.json # 0 /\ q.beh \in {"json", "send"}
        /\ Events(q, "route") # {})
         => /\ q.calls = IF q.beh = "json" THEN <<json, sendJson>> ELSE <<sendText>>
            /\ q.ret = r
            /\ q.finalized = 1
            /\ q.trace[Len(q.trace)] =
                 [e |-> "end", inst |-> 0,
                  arg |-> IF q.beh = "json" THEN <<"{}">> ELSE <<"text">>]
            /\ q.headers = IF q.beh = "json"
                           THEN {<<"Content-Type", "application/json">>}
                           ELSE {<<"Content-Type", "text/html">>}

C20_Witness ==
  /\ reqs[1].st = "done" /\ reqs[1].beh = "json" /\ reqs[1].status = 404
  /\ reqs[1].json = 1 /\ reqs[1].send = 1
  /\ Len(reqs[1].calls) = 2
  /\ Cardinality(Events(reqs[1], "res.json")) = 1
  /\ reqs[1].ret = 1 /\ reqs[1].finalized = 1 /\ ~reqs[1].err

\* C29: a request that the requestFilter of a plugin instance turns down causes
\* no log emission by that instance at any point of its handling, the error
\* middleware included when the route handler throws.
C29_FilteredRequestNeverLogged ==
  \A r \in ReqIds : \A inst \in 1..Len(setups) :
    LET q == reqs[r]
    IN (q.st # "idle" /\ setups[inst].cfg.requestFilter = "deny")
         => \A i \in 1..Len(q.logs) : q.logs[i].inst # inst

\* C21: when the express plugin's cleanup runs, app.response.json and
\* app.response.send become the very references that setup captured, whatever
\* the application put there in between; and every call the res.json and
\* res.send wrappers make goes to the reference their instance captured, not
\* to what app.response holds at the time of the request.
WrapperEvents(q) == Events(q, "res.json") \cup Events(q, "res.send")

C21_CapturedEntryPoints ==
  [][/\ \A c \in 1..Len(setups) :
          (cleanupCalls'[c] > cleanupCalls[c] /\ setups[c].originalJson # None)
            => appResponse' = [json |-> setups[c].originalJson,
                               send |-> setups[c].originalSend]
     /\ \A r \in ReqIds :
          LET q == reqs'[r]
          IN \A i \in WrapperEvents(q) :
               LET k == Cardinality({j \in WrapperEvents(q) : j <= i})
                   cl == setups[q.trace[i].inst]
               IN /\ k <= Len(q.calls)
                  /\ q.calls[k].fn = IF q.trace[i].e = "res.json" THEN cl.originalJson
                                     ELSE cl.originalSend]_vars

C21_Witness ==
  /\ last.op = "unregister" /\ last.had /\ ~last.threw
  /\ Len(setups) = 1 /\ cleanupCalls[1] = 1
  /\ setups[1].originalJson = "json1" /\ setups[1].originalSend = "send0"
  /\ appResponse = [json |-> "json1", send |-> "send0"]
  /\ reqs[1].st = "done" /\ reqs[1].beh = "json" /\ Len(reqs[1].calls) = 2
  /\ reqs[1].calls[1].fn = "json1" /\ reqs[1].calls[2].fn = "send0"

\* C22: for an error event and for a rejection event that the errorFilter of
\* an installed browser plugin instance turns down, that instance emits no
\* exception log, and the function that was in window.onerror (respectively
\* in window.onunhandledrejection) when the instance was installed is still
\* called for the event.
ObsEvents(o, e, h) == {i \in 1..Len(o.trace) : o.trace[i] = [e |-> e, h |-> h]}

InstalledOnError(i) == window.onerror = i /\ i \in 1..Len(setups)

InstalledListener(i) ==
  i \in 1..Len(setups) /\ \E k \in 1..Len(window.listeners) : window.listeners[k] = i

C22_FilteredEventStillChained ==
  [][\A i \in 1..Len(setups) :
       /\ (/\ last'.op = "error" /\ InstalledOnError(i)
           /\ setups[i].browser.errorFilter = "deny")
            => /\ ObsEvents(obs', "exception", i) = {}
               /\ setups[i].previousErrorHandler # NoHandler
                    => ObsEvents(obs', "host", setups[i].previousErrorHandler) # {}
       /\ (/\ last'.op = "rejection" /\ InstalledListener(i)
           /\ setups[i].browser.errorFilter = "deny")
            => /\ ObsEvents(obs', "exception", i) = {}
               /\ setups[i].previousRejectionHandler # NoHandler
                    => ObsEvents(obs', "host", setups[i].previousRejectionHandler) # {}]_vars

\* C23: when the cleanup of a browser plugin instance runs while window.onerror
\* still holds the handler that instance installed, window.onerror becomes the
\* very value it held just before the installation, a function or null.
C23_ErrorHookRestored ==
  [][\A c \in 1..Len(setups) :
       (/\ cleanupCalls[c] = 0 /\ cleanupCalls'[c] = 1
        /\ InstalledOnError(c))
         => window'.onerror = setups[c].before.onerror]_vars

C23_Witness ==
  /\ last.op = "unregister" /\ last.had
  /\ Len(setups) = 1 /\ cleanupCalls[1] = 1
  /\ setups[1].browser.captureErrors /\ setups[1].before.onerror = 101
  /\ window.onerror = 101

\* C24: when the cleanup of a browser plugin instance runs, nothing else
\* having touched the global object since the installation, the set of
\* 'unhandledrejection' listeners and window.onunhandledrejection are what they
\* were just before the installation, whatever they were: also when the
\* function in window.onunhandledrejection was registered as a listener too.
C24_RejectionListenersRestored ==
  [][\A c \in 1..Len(setups) :
       (/\ cleanupCalls[c] = 0 /\ cleanupCalls'[c] = 1
        /\ setups[c].originalJson = None /\ window.present
        /\ window = SetupWindow(setups[c].before, "browserPlugin", setups[c].browser, c))
         => /\ Range(window'.listeners) = Range(setups[c].before.listeners)
            /\ window'.onunhandledrejection = setups[c].before.onunhandledrejection]_vars

\* C25: for a rejection event, a browser plugin instance calls
\* event.preventDefault() only right after its exception log for the event was
\* emitted without a throw, and never when its errorFilter turns the event
\* down or when the logging throws (a throwing errorFilter or contextInjector,
\* or a facade that was never initialised).
C25_PreventDefaultAfterLog ==
  [][last'.op = "rejection"
       => \A i \in 1..Len(setups) :
            InstalledListener(i)
              => /\ ObsEvents(obs', "rejectionHandler", i) # {}
                 /\ \A k \in ObsEvents(obs', "preventDefault", i) :
                      k > 1 /\ obs'.trace[k - 1] = [e |-> "exception", h |-> i]
                 /\ (\/ setups[i].browser.errorFilter \in {"deny", "throws"}
                     \/ setups[i].browser.contextInjector = "throws"
                     \/ ~initialized)
                      => /\ ObsEvents(obs', "preventDefault", i) = {}
                         /\ ObsEvents(obs', "exception", i) = {}]_vars

C25_Witness ==
  /\ last.op = "rejection" /\ initialized
  /\ Len(setups) = 1 /\ setups[1].browser.errorFilter = "allow"
  /\ window.onunhandledrejection = 102
  /\ obs.kind = "rejection"
  /\ \E k \in 1..(Len(obs.trace) - 2) :
       /\ obs.trace[k] = [e |-> "rejectionHandler", h |-> 1]
       /\ obs.trace[k + 1] = [e |-> "exception", h |-> 1]
       /\ obs.trace[k + 2] = [e |-> "preventDefault", h |-> 1]

\* C26: where there is no window, the setup of the browser plugin installs no
\* handler and no listener, calls no logging method of the facade (it only
\* warns on the console, and so succeeds on a facade that was never
\* initialised), and returns no cleanup: nothing is invoked when the plugin is
\* unregistered or the facade shut down.
C26_NoWindowNoEffect ==
  [][~window.present
       => /\ window' = window
          /\ cleanupCalls' = cleanupCalls
          /\ (last'.op = "plugin" /\ Len(setups') > Len(setups))
               => /\ obs' = [NoObs EXCEPT !.kind = "setup",
                        !.trace = <<[e |-> "console.warn", h |-> NoHandler]>>]
                  /\ last'.setup = "ok" /\ ~last'.threw
                  /\ setups'[Len(setups')] = NoClosure]_vars

C26_Witness ==
  /\ ~window.present /\ ~initialized
  /\ last.op = "unregister" /\ last.had
  /\ Len(setups) = 1 /\ cleanupCalls[1] = 0
  /\ pluginRegistry = <<EmptySlot>>
  /\ obs = [NoObs EXCEPT !.kind = "setup",
                         !.trace = <<[e |-> "console.warn", h |-> NoHandler]>>]
  /\ window = NoWindow

\* C27: a logging call (info, debug, warn, error, exception) made before init
\* throws and writes nothing to the backend logger or to the console; made at
\* any time after init, shutdown included, it does not throw and hands exactly
\* one record to the backend logger.
C27_LoggingCallOutcome ==
  [][last'.op = "log"
       => IF ~initialized
          THEN obs'.threw /\ obs'.trace = <<>>
          ELSE /\ ~obs'.threw
               /\ Cardinality(ObsEvents(obs', "logger.emit", NoHandler)) = 1]_vars

\* C28: no hook (the logging middleware, the res.end, res.json and res.send
\* wrappers, the error middleware, the window.onerror handler, the rejection
\* handler) adds, removes or replaces a registry entry: the registry changes
\* only inside plugin(), unregisterPlugin() and shutdown().
HookOps == {"request", "respond", "error", "rejection"}

RegistryOps == {"plugin", "unregister", "shutdown", "resume"}

C28_HooksLeaveRegistry ==
  [][/\ last'.op \in HookOps => pluginRegistry' = pluginRegistry
     /\ pluginRegistry' # pluginRegistry => last'.op \in RegistryOps]_vars

C28_Witness ==
  /\ last.op = "rejection" /\ initialized
  /\ MapHas(pluginRegistry, "express") /\ MapHas(pluginRegistry, "browser")
  /\ ObsEvents(obs, "exception", pluginRegistry[MapIndex(pluginRegistry, "browser")].cleanup)
       # {}
  /\ reqs[1].st = "done" /\ reqs[1].beh = "json" /\ Len(reqs[1].calls) = 2
  /\ LogsOf(reqs[1], "http.request") # {} /\ LogsOf(reqs[1], "http.response") # {}

\* C30: with several browser plugin instances registered under different
\* names, once all of them are cleaned up, in whatever order (that of
\* shutdown included), window.onerror is the value it held before the first
\* installation; and as long as an instance is registered, its cleanup not yet
\* run, its handler is reachable from window.onerror through the chain of
\* previous handlers.
RECURSIVE ReachableHandler(_, _)
ReachableHandler(h, c) ==
  \/ h = c
  \/ h \in 1..Len(setups) /\ ReachableHandler(setups[h].previousErrorHandler, c)

C30_StackedInstancesUnwind ==
  window.present /\ Len(setups) >= 1
    => /\ (\A c \in 1..Len(setups) : cleanupCalls[c] >= 1)
            => window.onerror = setups[1].before.onerror
       /\ \A i \in 1..Len(pluginRegistry) :
            (/\ pluginRegistry[i].live /\ cleanupCalls[pluginRegistry[i].cleanup] = 0
             /\ setups[pluginRegistry[i].cleanup].browser.captureErrors)
              => ReachableHandler(window.onerror, pluginRegistry[i].cleanup)

\* C31: while a browser plugin instance is installed, the function that was in
\* window.onerror when it was installed is called exactly once for every error
\* event, and the function that was in window.onunhandledrejection exactly
\* once for every rejection event.
C31_PreviousHookOncePerEvent ==
  [][\A i \in 1..Len(setups) :
       /\ (/\ last'.op = "error" /\ InstalledOnError(i)
           /\ setups[i].previousErrorHandler # NoHandler)
            => Cardinality(ObsEvents(obs', "host", setups[i].previousErrorHandler)) = 1
       /\ (/\ last'.op = "rejection" /\ InstalledListener(i)
           /\ setups[i].previousRejectionHandler # NoHandler)
            => Cardinality(ObsEvents(obs', "host", setups[i].previousRejectionHandler))
                 = 1]_vars

\* C33: when plugin() throws while registering the express plugin (no app in
\* the config, or a facade that was never initialised), the host app's
\* middleware stack is what it was before the call.
C33_FailedRegistrationLeavesApp ==
  [][(last'.op = "plugin" /\ last'.threw) => appStack' = appStack]_vars

\* C34: once the express plugin has been unregistered or cleaned up by
\* shutdown, and not registered again, a request to the host app opens no span
\* and emits no log of the plugin.
C34_NoActivityAfterCleanup ==
  [][(/\ last'.op = "request" /\ ~MapHas(pluginRegistry, "express")
      /\ \A c \in 1..Len(setups) : setups[c].originalJson # None => cleanupCalls[c] >= 1)
       => \A r \in ReqIds : reqs'[r].spans = <<>> /\ reqs'[r].logs = <<>>]_vars

\* C37: a plugin(name, ...) call for a name the registry does not hold (also a
\* name that was unregistered before) runs the setup function again and stores
\* a fresh entry after every entry present at that moment, so that the
\* iteration of shutdown reaches it last among them.
C37_ReRegistrationGoesLast ==
  [][(last'.op = "plugin" /\ ~last'.had /\ last'.setup = "ok")
       => /\ Len(setups') = Len(setups) + 1
          /\ MapHas(pluginRegistry', last'.name)
          /\ LET j == MapIndex(pluginRegistry', last'.name)
             IN /\ pluginRegistry'[j].cleanup = Len(setups')
                /\ cleanupCalls'[Len(setups')] = 0
                /\ \A i \in 1..Len(pluginRegistry') :
                     (pluginRegistry'[i].live /\ i # j) => i < j
                /\ MapNext(pluginRegistry', j) = 0]_vars

C37_Witness ==
  /\ last.op = "plugin" /\ last.name = "a" /\ last.setup = "ok" /\ ~last.had
  /\ Len(setups) = 3 /\ cleanupCalls = <<1, 0, 0>>
  /\ Len(pluginRegistry) = 3
  /\ ~pluginRegistry[1].live
  /\ pluginRegistry[2].name = "b" /\ pluginRegistry[2].cleanup = 2
  /\ pluginRegistry[3].name = "a" /\ pluginRegistry[3].cleanup = 3

\* C36: shutdown() never drops an entry from the registry without having
\* invoked its cleanup (when it has one): a plugin registered while shutdown()
\* is suspended on a cleanup is reached by the iteration and cleaned up, and
\* one registered while it awaits the providers is still in the registry when
\* shutdown() resolves.
C36_NoEntryDroppedUncleaned ==
  [][/\ last'.op \in {"shutdown", "resume"}
          => \A i \in 1..Len(pluginRegistry) :
               (pluginRegistry[i].live /\ ~pluginRegistry'[i].live)
                 => \/ CleanupKind(pluginRegistry[i].plugin) = "none"
                    \/ cleanupCalls'[pluginRegistry[i].cleanup] >= 1
     /\ last'.op = "backend" => pluginRegistry' = pluginRegistry]_vars

C36_Witness ==
  /\ last.op = "backend" /\ sd[1].pc = "done" /\ Len(sd[1].invoked) = 1
  /\ Len(setups) = 2 /\ cleanupCalls = <<1, 0, 0>>
  /\ Len(pluginRegistry) = 2
  /\ ~pluginRegistry[1].live
  /\ pluginRegistry[2].live /\ pluginRegistry[2].cleanup = 2
  /\ CleanupKind(pluginRegistry[2].plugin) # "none"

\* C32: when something in a browser plugin handler's own logic throws (the
\* errorFilter, the messageFormatter, the contextInjector, or the facade's
\* exception call), nothing propagates out of the window.onerror handler or
\* the rejection handler; and the window.onerror handler still calls the
\* previous handler and returns what it returns, or false when there is none.
HandlerFails(cfg) ==
  \/ cfg.errorFilter = "throws"
  \/ /\ cfg.errorFilter # "deny"
     /\ cfg.messageFormatter = "throws" \/ cfg.contextInjector = "throws" \/ ~initialized

C32_HandlerFailureContained ==
  [][/\ last'.op \in {"error", "rejection"} => ~obs'.threw
     /\ \A i \in 1..Len(setups) :
          (last'.op = "error" /\ InstalledOnError(i) /\ HandlerFails(setups[i].browser))
            => LET prev == setups[i].previousErrorHandler
               IN /\ ObsEvents(obs', "console.error", i) # {}
                  /\ ObsEvents(obs', "exception", i) = {}
                  /\ prev = NoHandler => obs'.ret = "false"
                  /\ prev \in HostHandlers
                       => /\ Cardinality(ObsEvents(obs', "host", prev)) = 1
                          /\ obs'.ret = "true"]_vars

C32_Witness ==
  /\ last.op = "error" /\ initialized
  /\ Len(setups) = 1 /\ setups[1].browser.messageFormatter = "throws"
  /\ setups[1].previousErrorHandler = 101 /\ window.onerror = 1
  /\ obs.kind = "error" /\ ~obs.threw /\ obs.ret = "true"
  /\ obs.trace = << [e |-> "errorHandler", h |-> 1], [e |-> "console.error", h |-> 1],
                    [e |-> "host", h |-> 101] >>

\* C39: in the window.onerror handler and in the rejection handler alike, the
\* value handed to errorFilter and to messageFormatter is the Error built from
\* the event, the value that is then passed to the facade's exception call.
C39_FilterSeesNormalizedError ==
  [][last'.op \in {"error", "rejection"}
       => \A k \in 1..Len(obs'.args) : obs'.args[k].arg = "Error"]_vars

\* C40: with captureErrors false neither the setup nor the cleanup of a
\* browser plugin instance changes window.onerror, and with
\* captureUnhandledRejections false neither changes the 'unhandledrejection'
\* listeners.
C40_CaptureFlagsGateHooks ==
  [][\A c \in 1..Len(setups') :
       (/\ setups'[c].originalJson = None /\ window.present
        /\ \/ Len(setups) = c - 1
           \/ Len(setups) >= c /\ cleanupCalls'[c] # cleanupCalls[c])
         => /\ ~setups'[c].browser.captureErrors => window'.onerror = window.onerror
            /\ ~setups'[c].browser.captureUnhandledRejections
                 => window'.listeners = window.listeners]_vars

C40_Witness ==
  /\ last.op = "unregister" /\ last.had
  /\ Len(setups) = 1 /\ cleanupCalls[1] = 1
  /\ ~setups[1].browser.captureErrors /\ setups[1].browser.captureUnhandledRejections
  /\ setups[1].before.onerror = 101 /\ setups[1].before.listeners = <<102>>
  /\ window.onerror = 101 /\ window.listeners = <<102>>

\* ------------------------------------------------- the facade in a page
\* An application that calls init up to MaxInits times, calls shutdown, logs,
\* and whose page fires unload events.  Nothing else runs while the listeners
\* of an event are being called.
MaxInits == 2

UnloadInit ==
  /\ page.pending = <<>>
  /\ page.created < MaxInits
  /\ \E mirror \in BOOLEAN : InitBody(mirror)

UnloadShutdown == page.pending = <<>> /\ CallShutdown

UnloadBackend == page.pending = <<>> /\ Backend

UnloadLog == page.pending = <<>> /\ LogCall("info", "none")

Unload == \E type \in UnloadEvents : UnloadEvent(type)

NextUnload ==
  \/ UnloadInit
  \/ UnloadShutdown
  \/ UnloadBackend
  \/ UnloadLog
  \/ Unload
  \/ UnloadListener

SpecUnload == InitWin /\ [][NextUnload]_vars

\* C38: whatever init calls and unload events came before, when shutdown() has
\* run in a page none of the beforeunload or pagehide listeners that init
\* installed is registered any more, so no later unload event can start
\* another shutdown.
C38_ShutdownRemovesUnloadListeners ==
  [][(window.present /\ page'.shutdowns > page.shutdowns)
       => page'.beforeunload = <<>> /\ page'.pagehide = <<>>]_vars

\* ------------------------------------------------- spans around functions
\* An application that wraps up to MaxSpans functions in span(name, fn); the
\* functions settle in any order.
MaxSpans == 3

SpanStart ==
  /\ Len(spans) < MaxSpans
  /\ \E fn \in FnKinds, v \in SpanValues : SpanCall(fn, v)

SpanFn == \E i \in 1..Len(spans) : FnSettle(i)

SpanEnd == \E i \in 1..Len(spans) : SpanResume(i)

NextSpan ==
  \/ SpanStart
  \/ SpanFn
  \/ SpanEnd

SpecSpan == Init /\ [][NextSpan]_vars

\* C35: span(name, fn) ends the span it opened exactly once, not before fn has
\* returned or thrown or the promise it returned has settled, whether fn
\* succeeds or fails; and the promise span returns settles with the very value
\* fn returned or resolved with, or rejects with the very error fn threw or
\* rejected with.
C35_SpanEndedOnceResultDelivered ==
  \A i \in 1..Len(spans) :
    LET s == spans[i]
    IN /\ s.ends <= 1
       /\ s.ends = 1 => (s.fn = "throws" \/ s.settled)
       /\ s.pc = "await" => (s.ends = 0 /\ s.out = Pending)
       /\ s.pc = "done"
            => /\ s.ends = 1
               /\ s.out.val = s.val
               /\ s.out.kind = IF s.fn \in {"returns", "resolves"} THEN "resolved"
                               ELSE "rejected"

C35_Witness ==
  /\ Len(spans) = 3
  /\ spans[1] = [fn |-> "rejects", val |-> "v", pc |-> "done", settled |-> TRUE,
                 ends |-> 1, out |-> [kind |-> "rejected", val |-> "v"]]
  /\ spans[2].fn = "throws" /\ spans[2].ends = 1 /\ spans[2].out.val = spans[2].val
  /\ spans[3] = [fn |-> "returns", val |-> "w", pc |-> "done", settled |-> TRUE,
                 ends |-> 1, out |-> [kind |-> "resolved", val |-> "w"]]

====
